---- MODULE Spec2Model ----
(***************************************************************************)
(* Caribbean payroll calculation engine: the calculators of                *)
(* app/calculators (Curacao 2026, the superseded Curacao calculator,       *)
(* St. Maarten, Aruba, Bonaire) and the orchestrator                       *)
(* BasePayrollCalculator.calculate, as a state machine.                    *)
(*                                                                         *)
(* Money is Python's Decimal.  A Decimal is modelled as a record           *)
(* [w, f] that stands for w + f/FracDen cents, with w an integer (the      *)
(* floor) and 0 <= f < FracDen.  FracDen holds every denominator the       *)
(* calculators produce on whole-cent inputs (the /12 of the annual         *)
(* figures, the rates with up to four decimals, the chain                  *)
(* korting -> tax base -> bracket rate), so the arithmetic below is exact  *)
(* rational arithmetic; every product is split so that no intermediate     *)
(* leaves the 32-bit range.  Decimal itself keeps 28 significant digits,   *)
(* so a twelfth of an annual figure is cut off at the 28th digit; the      *)
(* two differ in a rounded result only when an exact value lies on a half  *)
(* cent, and the salaries of the model are chosen so that none does.       *)
(***************************************************************************)
EXTENDS Integers, Sequences, FiniteSets, TLC

\* ------------------------------------------------------------------------
\* Decimal arithmetic
\* ------------------------------------------------------------------------

FracDen == 2048 * 3 * 78125

\* Optional values: None is the empty sequence, a present value x is <<x>>.
None == <<>>

Some(x) == <<x>>

DNorm(w, f) == [w |-> w + (f \div FracDen), f |-> f % FracDen]

\* Decimal("c.cc") for a whole number of cents.
Cents(c) == [w |-> c, f |-> 0]

DZero == Cents(0)

DAdd(a, b) == DNorm(a.w + b.w, a.f + b.f)

DNeg(a) == DNorm(-a.w, -a.f)

DSub(a, b) == DNorm(a.w - b.w, a.f - b.f)

DLt(a, b) == a.w < b.w \/ (a.w = b.w /\ a.f < b.f)

DLe(a, b) == a.w < b.w \/ (a.w = b.w /\ a.f <= b.f)

\* min with the cap forgotten: the fault CappedContributions must detect.
DMin_uncapped(a, b) == a

DMin(a, b) == IF DLe(a, b) THEN a ELSE b

DMax(a, b) == IF DLe(b, a) THEN a ELSE b

\* a * (n/d) for a rate n/d whose denominator divides FracDen.
DMulRate(a, n, d) ==
    LET wq == a.w \div d
        wr == a.w % d
        fq == a.f \div d
        fr == a.f % d
    IN  DNorm(wq * n + ((wr * n) \div d),
              ((wr * n) % d) * (FracDen \div d) + fq * n + ((fr * n) \div d))

\* a * r for a rate r = <<n, d>>.
DMul(a, r) == DMulRate(a, r[1], r[2])

\* a / k for a whole number k.
DDiv(a, k) == DMulRate(a, 1, k)

\* a * k for a small natural number k.
RECURSIVE DTimes(_, _)
DTimes(a, k) == IF k = 0 THEN DZero ELSE DAdd(a, DTimes(a, k - 1))

\* BasePayrollCalculator.round_currency: quantize to cents, ROUND_HALF_UP
\* (ties away from zero).
round_currency(amount) ==
    IF amount.w >= 0
    THEN Cents(amount.w + (IF 2 * amount.f >= FracDen THEN 1 ELSE 0))
    ELSE Cents(amount.w + (IF 2 * amount.f > FracDen THEN 1 ELSE 0))

\* ------------------------------------------------------------------------
\* Strings: the labels of the model and what str.lower, str.upper and
\* str.replace('_', ' ').title() make of them
\* ------------------------------------------------------------------------

AllowanceLabels == {"phone", "TELEFOON", "meal"}

DeductionLabels == {"union_dues"}

str_lower(s) ==
    CASE s = "phone" -> "phone"
      [] s = "CURACAO" -> "curacao"
      [] s \in {"curacao", "st_maarten", "aruba", "bonaire", "invalid_place", "batch"} -> s
      [] s = "TELEFOON" -> "telefoon"
      [] s = "Phone" -> "phone"
      [] s = "meal" -> "meal"
      [] s = "union_dues" -> "union_dues"

str_upper(s) ==
    CASE s = "phone" -> "PHONE"
      [] s = "TELEFOON" -> "TELEFOON"
      [] s = "Phone" -> "PHONE"
      [] s = "meal" -> "MEAL"
      [] s = "union_dues" -> "UNION_DUES"

str_title(s) ==
    CASE s = "phone" -> "Phone"
      [] s = "TELEFOON" -> "Telefoon"
      [] s = "Phone" -> "Phone"
      [] s = "meal" -> "Meal"
      [] s = "union_dues" -> "Union Dues"

\* ------------------------------------------------------------------------
\* app.models
\* ------------------------------------------------------------------------

\* PayrollLineItem
PayrollLineItem(code, name, category, amount, rate, base_amount, notes) ==
    [code |-> code, name |-> name, category |-> category, amount |-> amount,
     rate |-> rate, base_amount |-> base_amount, notes |-> notes]

\* A note: the literal text of the source with its formatted values.
Note(text, args) == Some([text |-> text, args |-> args])

\* ------------------------------------------------------------------------
\* BasePayrollCalculator
\* ------------------------------------------------------------------------

\* The line put in front of the ledger instead of at its end: the fault
\* LedgerInStageOrder must detect.
add_line_item_first(items, code, name, category, amount, rate, base_amount, notes) ==
    <<PayrollLineItem(code, name, category, round_currency(amount),
                      rate, base_amount, notes)>> \o items

\* add_line_item on the ledger `items`: the amount is rounded here, the
\* rate and the base amount are stored as given.
add_line_item(items, code, name, category, amount, rate, base_amount, notes) ==
    Append(items, PayrollLineItem(code, name, category, round_currency(amount),
                                  rate, base_amount, notes))

\* The bracket loop with `<` for `<=` in the test that ends it: the fault
\* ProgressiveTaxIsBracketSum must detect.
RECURSIVE progressive_loop_lt(_, _, _, _, _)
progressive_loop_lt(taxable_amount, brackets, i, tax, notes_parts) ==
    IF i > Len(brackets) THEN [tax |-> tax, notes_parts |-> notes_parts]
    ELSE LET lower == brackets[i][1]
             upper == brackets[i][2]
             rate == brackets[i][3]
         IN  IF DLt(taxable_amount, lower)
             THEN [tax |-> tax, notes_parts |-> notes_parts]
             ELSE LET bracket_amount == DSub(DMin(taxable_amount, upper), lower)
                      bracket_tax == DMul(bracket_amount, rate)
                  IN  progressive_loop_lt(taxable_amount, brackets, i + 1,
                                          DAdd(tax, bracket_tax),
                                          Append(notes_parts,
                                                 [rate |-> rate, amount |-> bracket_amount]))

\* calculate_progressive_tax: the loop over the brackets from index i on,
\* with the tax and the note parts accumulated so far.
RECURSIVE progressive_loop(_, _, _, _, _)
progressive_loop(taxable_amount, brackets, i, tax, notes_parts) ==
    IF i > Len(brackets) THEN [tax |-> tax, notes_parts |-> notes_parts]
    ELSE LET lower == brackets[i][1]
             upper == brackets[i][2]
             rate == brackets[i][3]
         IN  IF DLe(taxable_amount, lower)
             THEN [tax |-> tax, notes_parts |-> notes_parts]
             ELSE LET bracket_amount == DSub(DMin(taxable_amount, upper), lower)
                      bracket_tax == DMul(bracket_amount, rate)
                  IN  progressive_loop(taxable_amount, brackets, i + 1,
                                       DAdd(tax, bracket_tax),
                                       Append(notes_parts,
                                              [rate |-> rate, amount |-> bracket_amount]))

calculate_progressive_tax(taxable_amount, brackets) ==
    LET r == progressive_loop(taxable_amount, brackets, 1, DZero, <<>>)
    IN  [tax |-> round_currency(r.tax),
         notes |-> IF r.notes_parts # <<>>
                   THEN Note("{rate * 100}% on {bracket_amount}", r.notes_parts)
                   ELSE Note("No tax", <<>>)]

\* calculate_other_deductions: one DEDUCTION line per entry, from entry i on.
RECURSIVE other_deductions_loop(_, _, _, _)
other_deductions_loop(deductions, i, items, total) ==
    IF i > Len(deductions) THEN [line_items |-> items, total |-> total]
    ELSE other_deductions_loop(
             deductions, i + 1,
             add_line_item(items, "DED_" \o str_upper(deductions[i].label),
                           str_title(deductions[i].label), "DEDUCTION",
                           deductions[i].amount, None, None, None),
             DAdd(total, deductions[i].amount))

calculate_other_deductions(employee, items) ==
    other_deductions_loop(employee.deductions, 1, items, DZero)

\* The allowance loop shared by every calculate_gross.
RECURSIVE allowances_loop(_, _, _, _)
allowances_loop(allowances, i, items, gross) ==
    IF i > Len(allowances) THEN [line_items |-> items, gross |-> gross]
    ELSE allowances_loop(
             allowances, i + 1,
             add_line_item(items, "ALW_" \o str_upper(allowances[i].label),
                           str_title(allowances[i].label), "EARNING",
                           allowances[i].amount, None, None, None),
             DAdd(gross, allowances[i].amount))

\* ------------------------------------------------------------------------
\* CuracaoCalculator (2026 rates)
\* ------------------------------------------------------------------------

\* Decimal("999999999"), the open end of every bracket table.  Its cents do
\* not fit 32 bits; it stands here as an amount above every amount of the
\* model, which is all the calculators use it for (min(taxable, upper)).
Decimal_999999999 == Cents(2000000000)

Curacao_TAX_BRACKETS ==
    << <<Cents(0), Cents(211667), <<975, 10000>> >>,
       <<Cents(211667), Cents(284167), <<15, 100>> >>,
       <<Cents(284167), Cents(378333), <<23, 100>> >>,
       <<Cents(378333), Cents(567500), <<30, 100>> >>,
       <<Cents(567500), Cents(804167), <<375, 1000>> >>,
       <<Cents(804167), Cents(1182500), <<465, 1000>> >>,
       <<Cents(1182500), Decimal_999999999, <<465, 1000>> >> >>

BASISAFTREK == Cents(291500)

VASTE_AFTREK == Cents(50000)

AOV_AWW_EMPLOYEE_RATE == <<65, 1000>>

AOV_AWW_MAX_ANNUAL == Cents(10000000)

AOV_AWW_MAX_MONTHLY == DDiv(AOV_AWW_MAX_ANNUAL, 12)

KORTING_BASE == Cents(934000)

KORTING_PERCENTAGE == <<338, 1000>>

KORTING_RATE == <<65, 1000>>

KORTING_MAX_INCOME == Cents(2763300)

BVZ_EMPLOYEE_RATE == <<43, 1000>>

BVZ_MAX_ANNUAL == Cents(15000000)

BVZ_MAX_MONTHLY == DDiv(BVZ_MAX_ANNUAL, 12)

BVZ_VRIJSTELLING_ANNUAL == Cents(1200000)

BVZ_GLIDING_START == Cents(1200000)

BVZ_GLIDING_END == Cents(1800000)

BVZ_GLIDING_SCALE ==
    << <<Cents(1200000), Cents(1320000), <<38, 1000>> >>,
       <<Cents(1320000), Cents(1440000), <<28, 1000>> >>,
       <<Cents(1440000), Cents(1560000), <<19, 1000>> >>,
       <<Cents(1560000), Cents(1680000), <<11, 1000>> >>,
       <<Cents(1680000), Cents(1800000), <<6, 1000>> >> >>

AVBZ_EMPLOYEE_RATE == <<15, 1000>>

AVBZ_MAX_ANNUAL == Cents(60624708)

AVBZ_MAX_MONTHLY == DDiv(AVBZ_MAX_ANNUAL, 12)

AVBZ_REDUCED_THRESHOLD == Cents(2278900)

\* The reduced rate waived altogether: the fault BaseOnlyResult must detect.
AVBZ_REDUCED_EMPLOYEE_waived == <<0, 1000>>

AVBZ_REDUCED_EMPLOYEE == <<5, 1000>>

OVERTIME_MULTIPLIER == <<15, 10>>

\* Decimal("160"), the standard hours of a month in calculate_gross.
standard_hours == 160

\* calculate_gross of CuracaoCalculator (the superseded calculator has the
\* same text): BASIC, OVERTIME when overtime_hours > 0, one line per
\* allowance.  `if employee.hourly_rate:` is false for None and for 0.
Curacao_calculate_gross(employee, items) ==
    LET base_salary == employee.gross_salary
        items1 == add_line_item(items, "BASIC", "Basic Salary", "EARNING",
                                base_salary, None, None, None)
        gross1 == DAdd(DZero, base_salary)
        has_rate == employee.hourly_rate # None /\ employee.hourly_rate[1] # DZero
        overtime_rate ==
            IF has_rate
            THEN DMul(employee.hourly_rate[1], OVERTIME_MULTIPLIER)
            ELSE DMul(DDiv(employee.gross_salary, standard_hours), OVERTIME_MULTIPLIER)
        overtime_pay == DTimes(overtime_rate, employee.overtime_hours)
        items2 == IF employee.overtime_hours > 0
                  THEN add_line_item(items1, "OVERTIME", "Overtime Pay", "EARNING",
                                     overtime_pay, Some(OVERTIME_MULTIPLIER),
                                     Some(overtime_rate),
                                     Note("{overtime_hours} hours @ {overtime_rate}/hour",
                                          <<employee.overtime_hours, overtime_rate>>))
                  ELSE items1
        gross2 == IF employee.overtime_hours > 0 THEN DAdd(gross1, overtime_pay)
                  ELSE gross1
    IN  allowances_loop(employee.allowances, 1, items2, gross2)

\* calculate_premium_income_monthly
calculate_premium_income_monthly(gross) ==
    LET monthly_vaste_aftrek == DDiv(VASTE_AFTREK, 12)
        premium_income == DSub(gross, monthly_vaste_aftrek)
    IN  DMax(premium_income, DZero)

\* calculate_aov_aww_korting_monthly without the conversion to a monthly
\* figure: the annual credit.
calculate_aov_aww_korting_annual(annual_premium_income) ==
    IF DLe(KORTING_MAX_INCOME, annual_premium_income) THEN DZero
    ELSE DMax(DMul(DSub(KORTING_BASE, DMul(annual_premium_income, KORTING_PERCENTAGE)),
                   KORTING_RATE), DZero)

\* calculate_aov_aww_korting_monthly
calculate_aov_aww_korting_monthly(annual_premium_income) ==
    IF DLe(KORTING_MAX_INCOME, annual_premium_income) THEN DZero
    ELSE LET korting_annual ==
                 DMul(DSub(KORTING_BASE, DMul(annual_premium_income, KORTING_PERCENTAGE)),
                      KORTING_RATE)
         IN  DDiv(DMax(korting_annual, DZero), 12)

\* The sub-band loop with `<=` for `<` at the upper limit: the fault
\* BvzBands must detect.
RECURSIVE gliding_loop_inclusive(_, _)
gliding_loop_inclusive(annual_income, i) ==
    IF i > Len(BVZ_GLIDING_SCALE) THEN <<0, 1>>
    ELSE IF DLe(BVZ_GLIDING_SCALE[i][1], annual_income)
            /\ DLe(annual_income, BVZ_GLIDING_SCALE[i][2])
         THEN BVZ_GLIDING_SCALE[i][3]
         ELSE gliding_loop_inclusive(annual_income, i + 1)

\* calculate_bvz_gliding_discount: the rate of the first sub-band from index
\* i on that holds the income, <<0, 1>> (Decimal("0")) when none does.
RECURSIVE gliding_loop(_, _)
gliding_loop(annual_income, i) ==
    IF i > Len(BVZ_GLIDING_SCALE) THEN <<0, 1>>
    ELSE IF DLe(BVZ_GLIDING_SCALE[i][1], annual_income)
            /\ DLt(annual_income, BVZ_GLIDING_SCALE[i][2])
         THEN BVZ_GLIDING_SCALE[i][3]
         ELSE gliding_loop(annual_income, i + 1)

calculate_bvz_gliding_discount(annual_income) ==
    IF DLt(annual_income, BVZ_GLIDING_START) THEN <<0, 1>>
    ELSE IF DLe(BVZ_GLIDING_END, annual_income) THEN <<0, 1>>
    ELSE gliding_loop(annual_income, 1)

\* The tax table file data/maandtabel_2026.csv as the calculator finds it:
\* [exists, header, rows].  header is FALSE for a file without a first
\* line; rows are the csv rows after the header, each a sequence of fields
\* [text, value] with text "num" (Decimal(field) succeeds and is value),
\* "empty" (the empty string) or "bad" (Decimal(field) raises).
Field(d) == [text |-> "num", value |-> d]

Row(min_val, max_val, tax) == <<Field(min_val), Field(max_val), Field(tax)>>

\* CuracaoCalculator.lookup_tax_from_table (the instance method, which
\* replaces the classmethod of the same name): the loop over the rows from
\* index i on; tax is the last value assigned to the local `tax`, None
\* before the first assignment.  An exception anywhere returns None.
RECURSIVE lookup_loop(_, _, _, _)
lookup_loop(rows, i, tax_base, tax) ==
    IF i > Len(rows) THEN tax
    ELSE LET row == rows[i]
         IN  IF ~(Len(row) >= 3 /\ row[1].text # "empty" /\ row[2].text # "empty"
                  /\ row[3].text # "empty")
             THEN lookup_loop(rows, i + 1, tax_base, tax)
             ELSE IF row[1].text = "bad" \/ row[2].text = "bad" \/ row[3].text = "bad"
             THEN None
             ELSE IF DLe(row[1].value, tax_base) /\ DLt(tax_base, row[2].value)
             THEN Some(row[3].value)
             ELSE lookup_loop(rows, i + 1, tax_base, Some(row[3].value))

\* The lookup answering Decimal("0") on a table without rows, as the
\* replaced classmethod does: the fault TableOrBracketFallback must detect.
lookup_tax_from_table_zero(file, tax_base) ==
    IF ~file.exists THEN None
    ELSE IF ~file.header THEN None
    ELSE IF file.rows = <<>> THEN Some(DZero)
    ELSE lookup_loop(file.rows, 1, tax_base, None)

lookup_tax_from_table(file, tax_base) ==
    IF ~file.exists THEN None
    ELSE IF ~file.header THEN None
    ELSE lookup_loop(file.rows, 1, tax_base, None)

\* How often one lookup opens and parses the table file (lines 378-387):
\* once when the standard path runs and the file exists; the lookup keeps
\* nothing of what it parsed and never consults _tax_table_cache.
opens(reads, file) == IF reads /\ file.exists THEN 1 ELSE 0

\* CuracaoCalculator.calculate_tax.  Result: the ledger, the warnings and
\* the returned tax.
Curacao_calculate_tax(employee, gross, items, warns, file) ==
    IF employee.tax_exempt
    THEN [line_items |-> add_line_item(items, "TAX", "Wage Tax (Exempt)", "DEDUCTION",
                                       DZero, None, None,
                                       Note("Tax exempt status", <<>>)),
          warnings |-> Append(warns, "Employee is tax exempt"),
          tax |-> DZero]
    ELSE IF employee.tax_percentage # None
    THEN LET tax == DMulRate(gross, employee.tax_percentage[1], 100)
         IN  [line_items |-> add_line_item(items, "TAX", "Wage Tax", "DEDUCTION", tax,
                                           Some(<<employee.tax_percentage[1], 100>>),
                                           Some(gross),
                                           Note("Custom rate: {tax_percentage}%",
                                                <<employee.tax_percentage[1]>>)),
              warnings |-> warns,
              tax |-> tax]
    ELSE LET premium_income_monthly == calculate_premium_income_monthly(gross)
             aov_aww_base == DMin(premium_income_monthly, AOV_AWW_MAX_MONTHLY)
             aov_aww_employee_raw == DMul(aov_aww_base, AOV_AWW_EMPLOYEE_RATE)
             premium_income_annual == DTimes(premium_income_monthly, 12)
             korting_monthly ==
                 IF DLt(premium_income_annual, KORTING_MAX_INCOME)
                 THEN calculate_aov_aww_korting_monthly(premium_income_annual)
                 ELSE DZero
             aov_aww_final == DMax(DSub(aov_aww_employee_raw, korting_monthly), DZero)
             tax_base == DSub(premium_income_monthly, aov_aww_final)
             looked_up == lookup_tax_from_table(file, tax_base)
             progressive == calculate_progressive_tax(tax_base, Curacao_TAX_BRACKETS)
             raw_tax == IF looked_up = None THEN progressive.tax ELSE looked_up[1]
             tax_method == IF looked_up = None THEN "Progressive brackets (fallback)"
                           ELSE "Official table lookup (NAf {tax_base:.2f})"
             monthly_basisaftrek == DDiv(BASISAFTREK, 12)
             tax_credits == monthly_basisaftrek
             final_tax == DMax(DSub(raw_tax, tax_credits), DZero)
         IN  [line_items |-> add_line_item(items, "TAX", "Wage Tax (Loonbelasting)",
                                           "DEDUCTION", final_tax, None, Some(tax_base),
                                           Note(tax_method, <<raw_tax, tax_credits>>)),
              warnings |-> warns,
              tax |-> final_tax]

\* CuracaoCalculator.calculate_social_security.  Result: the ledger, the
\* warnings and the contributions, a sequence of [code, amount] in the
\* order the dict receives its keys.
Curacao_calculate_social_security(employee, gross, items, warns) ==
    LET premium_income_monthly == calculate_premium_income_monthly(gross)
        premium_income_annual == DTimes(premium_income_monthly, 12)
        \* AOV/AWW
        aov_aww_base == DMin(premium_income_monthly, AOV_AWW_MAX_MONTHLY)
        aov_aww_employee_raw == DMul(aov_aww_base, AOV_AWW_EMPLOYEE_RATE)
        korting_monthly ==
            IF DLt(premium_income_annual, KORTING_MAX_INCOME)
            THEN calculate_aov_aww_korting_monthly(premium_income_annual)
            ELSE DZero
        korting_note ==
            IF DLt(premium_income_annual, KORTING_MAX_INCOME)
            THEN Note("Credit: income < NAf {KORTING_MAX_INCOME:,.0f}", <<>>)
            ELSE Note("Income >= NAf {KORTING_MAX_INCOME:,.0f}", <<>>)
        aov_aww_employee_final ==
            DMax(DSub(aov_aww_employee_raw, korting_monthly), DZero)
        items1 ==
            IF ~employee.aov_exempt
            THEN add_line_item(
                     add_line_item(items, "AOV_AWW", "AOV/AWW (6.5%)", "DEDUCTION",
                                   aov_aww_employee_raw, Some(AOV_AWW_EMPLOYEE_RATE),
                                   Some(aov_aww_base),
                                   Note("Pension & Widow/er Insurance", <<>>)),
                     "KORTING", "Premie Korting", "DEDUCTION", DNeg(korting_monthly),
                     None, None, korting_note)
            ELSE items
        warns1 == IF ~employee.aov_exempt THEN warns
                  ELSE Append(warns, "Employee is AOV/AWW exempt")
        c_aov == IF ~employee.aov_exempt THEN aov_aww_employee_final ELSE DZero
        \* BVZ
        bvz_exempt == DLt(premium_income_annual, BVZ_VRIJSTELLING_ANNUAL)
        bvz_base == DMin(premium_income_monthly, BVZ_MAX_MONTHLY)
        bvz_raw == DMul(bvz_base, BVZ_EMPLOYEE_RATE)
        gliding_discount == calculate_bvz_gliding_discount(premium_income_annual)
        discount_amount == DMul(bvz_raw, gliding_discount)
        bvz_final == DSub(bvz_raw, discount_amount)
        bvz_notes == IF DLt(DZero, discount_amount)
                     THEN Note("Health Insurance | Discount: -{gliding_discount * 100:.1f}%",
                               <<gliding_discount>>)
                     ELSE Note("Health Insurance", <<>>)
        items2 ==
            IF bvz_exempt
            THEN add_line_item(items1, "BVZ", "BVZ (Health Insurance)", "DEDUCTION",
                               DZero, None, None,
                               Note("Exempt: income below NAf {BVZ_VRIJSTELLING_ANNUAL:.2f}/year",
                                    <<>>))
            ELSE add_line_item(items1, "BVZ", "BVZ (4.3%)", "DEDUCTION", bvz_final,
                               Some(BVZ_EMPLOYEE_RATE), Some(bvz_base), bvz_notes)
        c_bvz == IF bvz_exempt THEN DZero ELSE bvz_final
        \* AVBZ
        avbz_base == DMin(premium_income_monthly, AVBZ_MAX_MONTHLY)
        reduced == DLt(premium_income_annual, AVBZ_REDUCED_THRESHOLD)
        avbz_rate == IF reduced THEN AVBZ_REDUCED_EMPLOYEE ELSE AVBZ_EMPLOYEE_RATE
        rate_note == IF reduced THEN "0.5% (reduced rate)" ELSE "1.5%"
        avbz_amount == DMul(avbz_base, avbz_rate)
        items3 == add_line_item(items2, "AVBZ", "AVBZ (Special Medical)", "DEDUCTION",
                                avbz_amount, Some(avbz_rate), Some(avbz_base),
                                Note(rate_note, <<>>))
    IN  [line_items |-> items3,
         warnings |-> warns1,
         contributions |-> << [code |-> "AOV_AWW", amount |-> c_aov],
                              [code |-> "BVZ", amount |-> c_bvz],
                              [code |-> "AVBZ", amount |-> avbz_amount],
                              [code |-> "CESANTIA", amount |-> DZero] >>]

\* ------------------------------------------------------------------------
\* The superseded Curacao calculator (curacao_backup_old.py); its
\* calculate_gross is Curacao_calculate_gross
\* ------------------------------------------------------------------------

CuracaoOld_TAX_BRACKETS ==
    << <<Cents(0), Cents(333300), <<14, 100>> >>,
       <<Cents(333300), Cents(500000), <<25, 100>> >>,
       <<Cents(500000), Cents(1000000), <<40, 100>> >>,
       <<Cents(1000000), Decimal_999999999, <<47, 100>> >> >>

AOV_RATE == <<7, 100>>

AOV_MAX_BASE == Cents(500000)

AWW_RATE == <<1, 100>>

AWW_MAX_BASE == Cents(500000)

CESANTIA_RATE == <<1, 100>>

CuracaoOld_calculate_tax(employee, gross, items, warns) ==
    IF employee.tax_exempt
    THEN [line_items |-> add_line_item(items, "TAX", "Wage Tax (Exempt)", "DEDUCTION",
                                       DZero, None, None,
                                       Note("Tax exempt status", <<>>)),
          warnings |-> Append(warns, "Employee is tax exempt"),
          tax |-> DZero]
    ELSE IF employee.tax_percentage # None
    THEN LET tax == DMulRate(gross, employee.tax_percentage[1], 100)
         IN  [line_items |-> add_line_item(items, "TAX", "Wage Tax", "DEDUCTION", tax,
                                           Some(<<employee.tax_percentage[1], 100>>),
                                           Some(gross),
                                           Note("Custom rate: {tax_percentage}%",
                                                <<employee.tax_percentage[1]>>)),
              warnings |-> warns,
              tax |-> tax]
    ELSE LET r == calculate_progressive_tax(gross, CuracaoOld_TAX_BRACKETS)
         IN  [line_items |-> add_line_item(items, "TAX", "Wage Tax (Loonbelasting)",
                                           "DEDUCTION", r.tax, None, Some(gross), r.notes),
              warnings |-> warns,
              tax |-> r.tax]

CuracaoOld_calculate_social_security(employee, gross, items, warns) ==
    LET aov_base == DMin(gross, AOV_MAX_BASE)
        aov_amount == DMul(aov_base, AOV_RATE)
        items1 == IF ~employee.aov_exempt
                  THEN add_line_item(items, "AOV", "AOV (Old Age Pension)", "DEDUCTION",
                                     aov_amount, Some(AOV_RATE), Some(aov_base),
                                     Note("{AOV_RATE * 100}% on max {AOV_MAX_BASE}", <<>>))
                  ELSE items
        warns1 == IF ~employee.aov_exempt THEN warns
                  ELSE Append(warns, "Employee is AOV exempt")
        c_aov == IF ~employee.aov_exempt THEN aov_amount ELSE DZero
        aww_base == DMin(gross, AWW_MAX_BASE)
        aww_amount == DMul(aww_base, AWW_RATE)
        items2 == IF ~employee.aww_exempt
                  THEN add_line_item(items1, "AWW", "AWW (Widow/Widower Insurance)",
                                     "DEDUCTION", aww_amount, Some(AWW_RATE),
                                     Some(aww_base),
                                     Note("{AWW_RATE * 100}% on max {AWW_MAX_BASE}", <<>>))
                  ELSE items1
        warns2 == IF ~employee.aww_exempt THEN warns1
                  ELSE Append(warns1, "Employee is AWW exempt")
        c_aww == IF ~employee.aww_exempt THEN aww_amount ELSE DZero
        cesantia_amount == DMul(gross, CESANTIA_RATE)
        items3 == add_line_item(items2, "CESANTIA", "Cesantia (Unemployment)",
                                "DEDUCTION", cesantia_amount, Some(CESANTIA_RATE),
                                Some(gross), Note("{CESANTIA_RATE * 100}% on gross", <<>>))
    IN  [line_items |-> items3,
         warnings |-> warns2,
         contributions |-> << [code |-> "AOV", amount |-> c_aov],
                              [code |-> "AWW", amount |-> c_aww],
                              [code |-> "CESANTIA", amount |-> cesantia_amount] >>]

\* ------------------------------------------------------------------------
\* StMaartenCalculator, ArubaCalculator, BonaireCalculator
\* ------------------------------------------------------------------------

\* The St. Maarten table with a zero dropped from the upper limit of its
\* second bracket: the fault JurisdictionTaxMonotone must detect.
StMaarten_TAX_BRACKETS_typo ==
    << <<Cents(0), Cents(250000), <<10, 100>> >>,
       <<Cents(250000), Cents(50000), <<25, 100>> >>,
       <<Cents(500000), Decimal_999999999, <<45, 100>> >> >>

StMaarten_TAX_BRACKETS ==
    << <<Cents(0), Cents(250000), <<10, 100>> >>,
       <<Cents(250000), Cents(500000), <<25, 100>> >>,
       <<Cents(500000), Decimal_999999999, <<45, 100>> >> >>

SOCIAL_SECURITY_RATE == <<65, 1000>>

SOCIAL_SECURITY_MAX == Cents(450000)

Aruba_TAX_BRACKETS ==
    << <<Cents(0), Cents(300000), <<12, 100>> >>,
       <<Cents(300000), Decimal_999999999, <<45, 100>> >> >>

Bonaire_TAX_BRACKETS ==
    << <<Cents(0), Cents(280000), <<15, 100>> >>,
       <<Cents(280000), Decimal_999999999, <<40, 100>> >> >>

\* calculate_gross of the St. Maarten, Aruba and Bonaire calculators (the
\* same text in each): BASIC and one line per allowance; overtime_hours and
\* hourly_rate are not read.
Simple_calculate_gross(employee, items) ==
    allowances_loop(employee.allowances, 1,
                    add_line_item(items, "BASIC", "Basic Salary", "EARNING",
                                  employee.gross_salary, None, None, None),
                    employee.gross_salary)

\* StMaartenCalculator.calculate_tax returning 0 for an exempt employee
\* without recording the line: the fault ExactlyOneTaxLine must detect.
StMaarten_calculate_tax_unrecorded(employee, gross, items, warns) ==
    IF employee.tax_exempt
    THEN [line_items |-> items, warnings |-> warns, tax |-> DZero]
    ELSE LET r == calculate_progressive_tax(gross, StMaarten_TAX_BRACKETS)
         IN  [line_items |-> add_line_item(items, "TAX", "Income Tax", "DEDUCTION",
                                           r.tax, None, Some(gross), r.notes),
              warnings |-> warns,
              tax |-> r.tax]

StMaarten_calculate_tax(employee, gross, items, warns) ==
    IF employee.tax_exempt
    THEN [line_items |-> add_line_item(items, "TAX", "Income Tax (Exempt)", "DEDUCTION",
                                       DZero, None, None, None),
          warnings |-> warns,
          tax |-> DZero]
    ELSE LET r == calculate_progressive_tax(gross, StMaarten_TAX_BRACKETS)
         IN  [line_items |-> add_line_item(items, "TAX", "Income Tax", "DEDUCTION",
                                           r.tax, None, Some(gross), r.notes),
              warnings |-> warns,
              tax |-> r.tax]

StMaarten_calculate_social_security(employee, gross, items, warns) ==
    LET ss_base == DMin(gross, SOCIAL_SECURITY_MAX)
        ss_amount == DMul(ss_base, SOCIAL_SECURITY_RATE)
    IN  [line_items |-> add_line_item(items, "SOCIAL_SEC", "Social Security",
                                      "DEDUCTION", ss_amount,
                                      Some(SOCIAL_SECURITY_RATE), Some(ss_base), None),
         warnings |-> warns,
         contributions |-> << [code |-> "SOCIAL_SEC", amount |-> ss_amount] >>]

\* ArubaCalculator.calculate_tax: tax_exempt and tax_percentage are not read.
Aruba_calculate_tax(employee, gross, items, warns) ==
    LET r == calculate_progressive_tax(gross, Aruba_TAX_BRACKETS)
    IN  [line_items |-> add_line_item(items, "TAX", "Income Tax", "DEDUCTION",
                                      r.tax, None, Some(gross), r.notes),
         warnings |-> warns,
         tax |-> r.tax]

\* BonaireCalculator.calculate_tax: tax_exempt and tax_percentage are not read.
Bonaire_calculate_tax(employee, gross, items, warns) ==
    LET r == calculate_progressive_tax(gross, Bonaire_TAX_BRACKETS)
    IN  [line_items |-> add_line_item(items, "TAX", "Payroll Tax", "DEDUCTION",
                                      r.tax, None, Some(gross), r.notes),
         warnings |-> warns,
         tax |-> r.tax]

\* calculate_social_security of the Aruba and Bonaire calculators: return {}.
Empty_calculate_social_security(employee, gross, items, warns) ==
    [line_items |-> items, warnings |-> warns, contributions |-> <<>>]

\* ------------------------------------------------------------------------
\* BasePayrollCalculator.calculate, stage by stage
\* ------------------------------------------------------------------------

\* The calculators: the four of the registry CALCULATORS of app/main.py,
\* and the superseded Curacao calculator.
Registry == {"curacao", "st_maarten", "aruba", "bonaire"}

Calculators == Registry \cup {"curacao_old"}

calculate_gross(calc, employee, items) ==
    IF calc \in {"curacao", "curacao_old"}
    THEN Curacao_calculate_gross(employee, items)
    ELSE Simple_calculate_gross(employee, items)

calculate_tax(calc, employee, gross, items, warns, file) ==
    CASE calc = "curacao" -> Curacao_calculate_tax(employee, gross, items, warns, file)
      [] calc = "curacao_old" -> CuracaoOld_calculate_tax(employee, gross, items, warns)
      [] calc = "st_maarten" -> StMaarten_calculate_tax(employee, gross, items, warns)
      [] calc = "aruba" -> Aruba_calculate_tax(employee, gross, items, warns)
      [] calc = "bonaire" -> Bonaire_calculate_tax(employee, gross, items, warns)

calculate_social_security(calc, employee, gross, items, warns) ==
    CASE calc = "curacao" -> Curacao_calculate_social_security(employee, gross, items, warns)
      [] calc = "curacao_old" ->
             CuracaoOld_calculate_social_security(employee, gross, items, warns)
      [] calc = "st_maarten" ->
             StMaarten_calculate_social_security(employee, gross, items, warns)
      [] OTHER -> Empty_calculate_social_security(employee, gross, items, warns)

\* sum(social_security.values())
RECURSIVE sum_values(_, _)
sum_values(contributions, i) ==
    IF i > Len(contributions) THEN DZero
    ELSE DAdd(contributions[i].amount, sum_values(contributions, i + 1))

\* The test of calculate without .lower(): the fault
\* NonCashAllowancesTaxedNotPaid must detect.
is_paid_out_case_sensitive(allowance_code) == allowance_code \notin {"phone", "telefoon"}

\* The allowances that calculate adds to net_salary: every one whose
\* lower-cased label is not 'phone' or 'telefoon'.
is_paid_out(allowance_code) == str_lower(allowance_code) \notin {"phone", "telefoon"}

\* calculate, lines 69-74: net_salary before the deductions are subtracted.
RECURSIVE paid_allowances_loop(_, _, _)
paid_allowances_loop(allowances, i, net_salary) ==
    IF i > Len(allowances) THEN net_salary
    ELSE paid_allowances_loop(allowances, i + 1,
                              IF is_paid_out(allowances[i].label)
                              THEN DAdd(net_salary, allowances[i].amount)
                              ELSE net_salary)

\* A dict comprehension {item.code: item.amount for item in ... if ...}: a
\* sequence of [code, amount] in insertion order, a repeated key keeping its
\* place and taking the later value.
RECURSIVE dict_put(_, _, _)
dict_put(d, code, amount) ==
    IF d = <<>> THEN << [code |-> code, amount |-> amount] >>
    ELSE IF Head(d).code = code THEN << [code |-> code, amount |-> amount] >> \o Tail(d)
    ELSE << Head(d) >> \o dict_put(Tail(d), code, amount)

RECURSIVE dict_of(_, _, _)
dict_of(items, i, d) ==
    IF i > Len(items) THEN d
    ELSE dict_of(items, i + 1, dict_put(d, items[i].code, items[i].amount))

StatutoryCodes == {"TAX", "AOV", "AWW", "CESANTIA", "SOCIAL_SEC"}

is_earning(item) == item.category = "EARNING"

is_statutory(item) == item.category = "DEDUCTION" /\ item.code \in StatutoryCodes

is_other(item) == item.category = "DEDUCTION" /\ item.code \notin StatutoryCodes

\* PayrollCalculationResult as calculate builds it.
PayrollCalculationResult(employee, gross, deductions, net, items, calc_notes, warns) ==
    [jurisdiction |-> employee.jurisdiction,
     gross_total |-> round_currency(gross),
     deductions_total |-> round_currency(deductions),
     net_salary |-> round_currency(net),
     line_items |-> items,
     earnings |-> dict_of(SelectSeq(items, is_earning), 1, <<>>),
     statutory_deductions |-> dict_of(SelectSeq(items, is_statutory), 1, <<>>),
     other_deductions |-> dict_of(SelectSeq(items, is_other), 1, <<>>),
     calculation_notes |-> calc_notes,
     warnings |-> warns]

\* ------------------------------------------------------------------------
\* Inputs
\* ------------------------------------------------------------------------

MaxAllowances == 2

MaxDeductions == 1

\* Monthly base salaries: below the BVZ exemption, inside the gliding scale,
\* on the AVBZ threshold (12 * (1940.75 - 500/12) = 22789), between the
\* thresholds and the caps, above the AOV/AWW cap, above every cap.
Salaries ==
    {Cents(50000), Cents(120000), Cents(194075), Cents(432100), Cents(1000000),
     Cents(6000000)}

AllAllowances ==
    << [label |-> "phone", amount |-> Cents(7500)],
       [label |-> "TELEFOON", amount |-> Cents(6000)],
       [label |-> "meal", amount |-> Cents(15000)] >>

AllDeductions == << [label |-> "union_dues", amount |-> Cents(2500)] >>

\* The mappings with at most n of the entries of `all`.
Mappings(all, n) ==
    {LET Chosen(a) == a \in S IN SelectSeq(all, Chosen) :
         S \in {T \in SUBSET {all[i] : i \in DOMAIN all} : Cardinality(T) <= n}}

OvertimeInputs ==
    {[overtime_hours |-> 0, hourly_rate |-> None],
     [overtime_hours |-> 16, hourly_rate |-> None],
     [overtime_hours |-> 16, hourly_rate |-> Some(Cents(3125))]}

TaxPercentages == {None, Some(10), Some(-10)}

\* EmployeeInput, for the calculator the registry hands the request to.
Employees(calc) ==
    {[jurisdiction |-> IF calc = "curacao_old" THEN "curacao" ELSE calc,
      gross_salary |-> g,
      hourly_rate |-> o.hourly_rate,
      overtime_hours |-> o.overtime_hours,
      allowances |-> a,
      deductions |-> d,
      tax_exempt |-> te,
      tax_percentage |-> tp,
      aov_exempt |-> ae,
      aww_exempt |-> we] :
        g \in Salaries, o \in OvertimeInputs, a \in Mappings(AllAllowances, MaxAllowances),
        d \in Mappings(AllDeductions, MaxDeductions), te \in BOOLEAN,
        tp \in TaxPercentages, ae \in BOOLEAN, we \in BOOLEAN}

MissingFile == [exists |-> FALSE, header |-> FALSE, rows |-> <<>>]

\* A well-formed table of three rows.
TableFile ==
    [exists |-> TRUE, header |-> TRUE,
     rows |-> << Row(Cents(0), Cents(200000), Cents(10000)),
                 Row(Cents(200000), Cents(500000), Cents(60000)),
                 Row(Cents(500000), Cents(1200000), Cents(250000)) >>]

\* A file of no lines at all: next(reader) finds no header.
EmptyFile == [exists |-> TRUE, header |-> FALSE, rows |-> <<>>]

\* A file of the header line alone.
HeaderOnlyFile == [exists |-> TRUE, header |-> TRUE, rows |-> <<>>]

\* A field Decimal() cannot parse.
BadField == [text |-> "bad", value |-> DZero]

\* The table with an unparsable field in its first row.
BadFirstRowFile == [TableFile EXCEPT !.rows[1][3] = BadField]

TaxFiles == {MissingFile, TableFile, EmptyFile, HeaderOnlyFile, BadFirstRowFile}

\* ------------------------------------------------------------------------
\* The results in the hands of the callers
\* ------------------------------------------------------------------------

\* A result is built with line_items=self.line_items,
\* calculation_notes=self.notes and warnings=self.warnings (lines 95-99).  An
\* entry of the results handed over keeps the employee and the table file of
\* its call, the result as it was returned, and `shared`: whether the three
\* lists of the result are still the lists the fields of the instance are
\* bound to.
hand_over(held, employee, file, built) ==
    Append(held, [employee |-> employee, tax_file |-> file, result |-> built,
                  shared |-> TRUE])

\* The fields emptied in place (list.clear()) instead of bound to fresh
\* lists: the fault EarlierResultsUntouched must detect.
cleared_in_place(held) == held

\* Lines 48-50 bind the three fields to fresh lists: the results handed
\* over before keep the lists they were built with.
rebind_fields(held) == [i \in DOMAIN held |-> [held[i] EXCEPT !.shared = FALSE]]

\* ------------------------------------------------------------------------
\* State
\* ------------------------------------------------------------------------

VARIABLES
    pc,            \* where calculate stands: the stage it runs next
    calculator,    \* the calculator instance the call runs on
    employee,      \* the argument of the call, None before the first call
    line_items,    \* self.line_items
    warnings,      \* self.warnings
    notes,         \* self.notes
    gross_total,   \* locals of calculate
    tax_amount,
    social_security,
    other_deductions_total,
    payable,       \* net_salary after the allowance loop, before line 77
    tax_file,      \* the file the table lookup of this call found, None before
    result,        \* the PayrollCalculationResult returned, None during a call
    taxable_amount,      \* the arguments of a direct call of
    brackets,            \* calculate_progressive_tax, and
    progressive_result,  \* what the call returned, None before it
    lookup_base,         \* the argument of a direct call of
    lookup_result,       \* lookup_tax_from_table and, in <<...>>, what it returned
    returned,            \* the results the instance has handed to its callers
    calls,               \* the locals of the calls that overlap on the instance
    table_reads,         \* how often the table file was opened and parsed
    request,             \* the request a handler of app/main.py serves, None before
    response,            \* its answer, None before
    entered,             \* the employees calculate was entered with for the request
    handler              \* the locals of the handler that serves the request

vars ==
    <<pc, calculator, employee, line_items, warnings, notes, gross_total, tax_amount,
      social_security, other_deductions_total, payable, tax_file, result,
      taxable_amount, brackets, progressive_result, lookup_base, lookup_result,
      returned, calls, table_reads, request, response, entered, handler>>

\* The state of a direct call of calculate_progressive_tax.
bracket_vars == <<taxable_amount, brackets, progressive_result>>

\* The state of a direct call of lookup_tax_from_table.
lookup_vars == <<lookup_base, lookup_result>>

\* The state of the callers of calculate: the overlapping calls and the
\* request handlers.
service_vars == <<calls, request, response, entered, handler>>

\* After construction (BasePayrollCalculator.__init__): empty fields, no call.
Init ==
    /\ pc = "idle"
    /\ calculator = "curacao"
    /\ employee = None
    /\ line_items = <<>>
    /\ warnings = <<>>
    /\ notes = <<>>
    /\ gross_total = DZero
    /\ tax_amount = DZero
    /\ social_security = <<>>
    /\ other_deductions_total = DZero
    /\ payable = DZero
    /\ tax_file = None
    /\ result = None
    /\ taxable_amount = None
    /\ brackets = <<>>
    /\ progressive_result = None
    /\ lookup_base = None
    /\ lookup_result = None
    /\ returned = <<>>
    /\ calls = <<>>
    /\ table_reads = 0
    /\ request = None
    /\ response = None
    /\ entered = <<>>
    /\ handler = None

\* calculate is entered on a calculator that has run no call yet (lines
\* 48-50): the fields are reset.
StartCalculate ==
    /\ pc = "idle"
    /\ \E c \in Calculators : \E e \in Employees(c) :
           /\ calculator' = c
           /\ employee' = Some(e)
    /\ line_items' = <<>>
    /\ warnings' = <<>>
    /\ notes' = <<>>
    /\ gross_total' = DZero
    /\ tax_amount' = DZero
    /\ social_security' = <<>>
    /\ other_deductions_total' = DZero
    /\ payable' = DZero
    /\ tax_file' = None
    /\ result' = None
    /\ pc' = "gross"
    /\ returned' = rebind_fields(returned)
    /\ UNCHANGED <<bracket_vars, lookup_vars, service_vars, table_reads>>

\* Step 1 (line 53)
CalculateGross ==
    /\ pc = "gross"
    /\ LET r == calculate_gross(calculator, employee[1], line_items)
       IN  /\ line_items' = r.line_items
           /\ gross_total' = r.gross
    /\ pc' = "tax"
    /\ UNCHANGED <<service_vars, table_reads,
                   returned, calculator, employee, warnings, notes, tax_amount,
                   social_security,
                   other_deductions_total, payable, tax_file, result,
                   bracket_vars, lookup_vars>>

\* Step 2 (line 56).  The Curacao calculator reads the table file on its
\* standard path; what it finds there is the environment's choice.
CalculateTax ==
    /\ pc = "tax"
    /\ \E file \in TaxFiles :
           LET reads == calculator = "curacao" /\ ~employee[1].tax_exempt
                        /\ employee[1].tax_percentage = None
               r == calculate_tax(calculator, employee[1], gross_total, line_items,
                                  warnings, file)
           IN  /\ line_items' = r.line_items
               /\ warnings' = r.warnings
               /\ tax_amount' = r.tax
               /\ tax_file' = IF reads THEN Some(file) ELSE None
               /\ table_reads' = table_reads + opens(reads, file)
    /\ pc' = "social"
    /\ UNCHANGED <<service_vars,
                   returned, calculator, employee, notes, gross_total, social_security,
                   other_deductions_total, payable, result,
                   bracket_vars, lookup_vars>>

\* Step 3 (line 59)
CalculateSocialSecurity ==
    /\ pc = "social"
    /\ LET r == calculate_social_security(calculator, employee[1], gross_total,
                                          line_items, warnings)
       IN  /\ line_items' = r.line_items
           /\ warnings' = r.warnings
           /\ social_security' = r.contributions
    /\ pc' = "other"
    /\ UNCHANGED <<service_vars, table_reads,
                   returned, calculator, employee, notes, gross_total, tax_amount,
                   other_deductions_total, payable, tax_file, result,
                   bracket_vars, lookup_vars>>

\* Step 4 (line 62)
CalculateOtherDeductions ==
    /\ pc = "other"
    /\ LET r == calculate_other_deductions(employee[1], line_items)
       IN  /\ line_items' = r.line_items
           /\ other_deductions_total' = r.total
    /\ pc' = "net"
    /\ UNCHANGED <<service_vars, table_reads,
                   returned, calculator, employee, warnings, notes, gross_total,
                   tax_amount,
                   social_security, payable, tax_file, result,
                   bracket_vars, lookup_vars>>

\* Step 5 and the result (lines 65-100)
BuildResult ==
    /\ pc = "net"
    /\ LET deductions_total ==
               DAdd(DAdd(tax_amount, sum_values(social_security, 1)),
                    other_deductions_total)
           paid == paid_allowances_loop(employee[1].allowances, 1,
                                        employee[1].gross_salary)
           net_salary == DSub(paid, deductions_total)
           built == PayrollCalculationResult(employee[1], gross_total, deductions_total,
                                             net_salary, line_items, notes, warnings)
       IN  /\ payable' = paid
           /\ result' = Some(built)
           /\ returned' = hand_over(returned, employee[1], tax_file, built)
    /\ pc' = "done"
    /\ UNCHANGED <<calculator, employee, line_items, warnings, notes, gross_total,
                   tax_amount, social_security, other_deductions_total, tax_file,
                   bracket_vars, lookup_vars,
                   service_vars, table_reads>>

Next ==
    \/ StartCalculate
    \/ CalculateGross
    \/ CalculateTax
    \/ CalculateSocialSecurity
    \/ CalculateOtherDeductions
    \/ BuildResult

Spec == Init /\ [][Next]_vars

\* ------------------------------------------------------------------------
\* calculate_progressive_tax called on its own, on any ordered, contiguous,
\* ascending bracket table
\* ------------------------------------------------------------------------

MaxBrackets == 3

\* The bounds a table is cut from, ascending; the last is the open end.
BracketBounds ==
    <<Cents(0), Cents(100000), Cents(250000), Cents(500000), Decimal_999999999>>

\* A tax-free band, the first Curacao rate, the top St. Maarten rate.
BracketRates == {<<0, 100>>, <<975, 10000>>, <<45, 100>>}

\* The members of a set of indices in ascending order.
Ascending(S) ==
    CHOOSE c \in [1..Cardinality(S) -> S] : \A i, j \in DOMAIN c : i < j => c[i] < c[j]

\* The table with bounds c[1] < c[2] < ... and the rate r[i] on bracket i.
BracketTable(c, r) ==
    [i \in 1..(Len(c) - 1) |-> <<BracketBounds[c[i]], BracketBounds[c[i + 1]], r[i]>>]

BracketTables ==
    {<<>>} \cup
    UNION {{BracketTable(Ascending(S), r) : r \in [1..(Cardinality(S) - 1) -> BracketRates]} :
               S \in {T \in SUBSET DOMAIN BracketBounds :
                          Cardinality(T) >= 2 /\ Cardinality(T) <= MaxBrackets + 1}}

\* Non-negative bases: zero, on a bound, next to a bound, between bounds,
\* with a fraction of a cent, above every finite bound.
TaxableAmounts ==
    {Cents(0), Cents(1), Cents(100000), [w |-> 123456, f |-> FracDen \div 2],
     Cents(250000), Cents(250001), Cents(432100), Cents(500000),
     [w |-> 500020, f |-> FracDen \div 3], Cents(1234567)}

InitBracket ==
    /\ pc = "bracket"
    /\ calculator = "curacao"
    /\ employee = None
    /\ line_items = <<>>
    /\ warnings = <<>>
    /\ notes = <<>>
    /\ gross_total = DZero
    /\ tax_amount = DZero
    /\ social_security = <<>>
    /\ other_deductions_total = DZero
    /\ payable = DZero
    /\ tax_file = None
    /\ result = None
    /\ taxable_amount = None
    /\ brackets = <<>>
    /\ progressive_result = None
    /\ lookup_base = None
    /\ lookup_result = None
    /\ returned = <<>>
    /\ calls = <<>>
    /\ table_reads = 0
    /\ request = None
    /\ response = None
    /\ entered = <<>>
    /\ handler = None

\* One call of calculate_progressive_tax; it reads and writes no field.
CallProgressiveTax ==
    /\ pc = "bracket"
    /\ progressive_result = None
    /\ \E b \in BracketTables : \E t \in TaxableAmounts :
           /\ taxable_amount' = Some(t)
           /\ brackets' = b
           /\ progressive_result' = Some(calculate_progressive_tax(t, b))
    /\ UNCHANGED <<service_vars, table_reads,
                   returned, pc, calculator, employee, line_items, warnings, notes, gross_total,
                   tax_amount, social_security, other_deductions_total, payable,
                   tax_file, result, lookup_vars>>

NextBracket == CallProgressiveTax

SpecBracket == InitBracket /\ [][NextBracket]_vars

\* ------------------------------------------------------------------------
\* Properties
\* ------------------------------------------------------------------------

\* The ledger lines with a given code or category.
LinesWithCode(items, code) == SelectSeq(items, LAMBDA item : item.code = code)

LinesInCategory(items, category) ==
    SelectSeq(items, LAMBDA item : item.category = category)

RECURSIVE SumAmounts(_)
SumAmounts(items) ==
    IF items = <<>> THEN DZero ELSE DAdd(Head(items).amount, SumAmounts(Tail(items)))

\* The labels of the model that spell phone or telefoon in some letter
\* case, and the codes of their ledger lines.
NonCashLabels == {"phone", "TELEFOON"}

NonCashCodes == {"ALW_PHONE", "ALW_TELEFOON"}

\* The sum of the allowances whose label is in `labels`.
RECURSIVE SumAllowances(_, _)
SumAllowances(allowances, labels) ==
    IF allowances = <<>> THEN DZero
    ELSE DAdd(IF Head(allowances).label \in labels THEN Head(allowances).amount
              ELSE DZero,
              SumAllowances(Tail(allowances), labels))

\* The sum of every earning recorded, the non-cash allowances left out.
PayableGross ==
    SumAmounts(SelectSeq(line_items,
                         LAMBDA item : item.category = "EARNING"
                                       /\ item.code \notin NonCashCodes))

\* C1: in every result of calculate, net_salary is payable_gross minus
\* deductions_total, payable_gross being the sum of every recorded earning
\* (base salary, overtime pay, allowances) except the non-cash allowances.
NetIsPayableGrossLessDeductions ==
    pc = "done" =>
        result[1].net_salary = DSub(PayableGross, result[1].deductions_total)

\* C2: in every result of calculate, deductions_total equals, to the cent,
\* the sum of the amounts of all DEDUCTION lines of the run, the negative
\* KORTING line included.
DeductionsTotalIsLedgerSum ==
    pc = "done" =>
        result[1].deductions_total = SumAmounts(LinesInCategory(line_items, "DEDUCTION"))

\* C3: an allowance labelled phone or telefoon, in any letter case, adds its
\* full amount to gross_total and to the gross the tax and contribution
\* stages receive, and nothing to the payable gross net_salary is computed
\* from; every other allowance adds its full amount to both.
NonCashAllowancesTaxedNotPaid ==
    pc = "done" =>
        LET e == employee[1]
            bare == [e EXCEPT !.allowances = <<>>]
            every == SumAllowances(e.allowances, AllowanceLabels)
            cash == SumAllowances(e.allowances, AllowanceLabels \ NonCashLabels)
            gross == DAdd(calculate_gross(calculator, bare, <<>>).gross, every)
            file == IF tax_file = None THEN MissingFile ELSE tax_file[1]
            deductions == DAdd(DAdd(tax_amount, sum_values(social_security, 1)),
                               other_deductions_total)
        IN  /\ gross_total = gross
            /\ result[1].gross_total = round_currency(gross)
            /\ tax_amount = calculate_tax(calculator, e, gross, <<>>, <<>>, file).tax
            /\ social_security =
                   calculate_social_security(calculator, e, gross, <<>>, <<>>).contributions
            /\ payable = DAdd(e.gross_salary, cash)
            /\ result[1].net_salary =
                   round_currency(DSub(DAdd(e.gross_salary, cash), deductions))

\* A finished run with a non-cash allowance in capitals and a cash one.
NonCashAndCashAllowanceRun ==
    /\ pc = "done"
    /\ \E i \in DOMAIN employee[1].allowances : employee[1].allowances[i].label = "TELEFOON"
    /\ \E i \in DOMAIN employee[1].allowances : employee[1].allowances[i].label = "meal"
    /\ gross_total # payable

\* C4: for a tax-exempt employee, in every jurisdiction and for every base
\* salary, the result holds a TAX line of amount 0.00 whose note carries an
\* exemption marker.
ExemptEmployeeZeroTaxLine ==
    (pc = "done" /\ employee[1].tax_exempt) =>
        \E i \in DOMAIN result[1].line_items :
            LET item == result[1].line_items[i]
            IN  /\ item.code = "TAX"
                /\ item.amount = DZero
                /\ item.notes # None
                /\ item.notes[1].text = "Tax exempt status"

\* C5: every run, in every jurisdiction and on every tax path, records
\* exactly one line with code TAX: none before the tax stage, one from the
\* tax stage on, one in the result.
ExactlyOneTaxLine ==
    /\ pc \in {"gross", "tax"} => Len(LinesWithCode(line_items, "TAX")) = 0
    /\ pc \in {"social", "other", "net", "done"} =>
           Len(LinesWithCode(line_items, "TAX")) = 1
    /\ pc = "done" => Len(LinesWithCode(result[1].line_items, "TAX")) = 1

\* A finished St. Maarten run of an exempt employee with deductions of
\* their own.
ExemptStMaartenRun ==
    /\ pc = "done"
    /\ calculator = "st_maarten"
    /\ employee[1].tax_exempt
    /\ employee[1].deductions # <<>>
    /\ Len(LinesWithCode(result[1].line_items, "TAX")) = 1

\* C6: the tax paths are checked in the order exempt, override, standard:
\* for a non-exempt employee with an override percentage p every
\* jurisdiction's tax is gross * p / 100, recorded with a custom-rate note;
\* for an exempt employee with an override the tax is 0.
OverridePercentageEverywhere ==
    (pc = "done" /\ employee[1].tax_percentage # None) =>
        LET e == employee[1]
            tax_lines == LinesWithCode(line_items, "TAX")
        IN  IF e.tax_exempt THEN tax_amount = DZero
            ELSE /\ tax_amount = DMulRate(gross_total, e.tax_percentage[1], 100)
                 /\ Len(tax_lines) = 1
                 /\ tax_lines[1].notes = Note("Custom rate: {tax_percentage}%",
                                              <<e.tax_percentage[1]>>)

\* C7: in every jurisdiction, overtime hours > 0 give exactly one OVERTIME
\* earning of hourly rate * multiplier * hours, the hourly rate being the
\* stated one if present and base salary / 160 otherwise, and gross_total
\* includes it; overtime hours of 0 give no OVERTIME line.
OvertimeEarningEverywhere ==
    pc = "done" =>
        LET e == employee[1]
            hourly == IF e.hourly_rate # None THEN e.hourly_rate[1]
                      ELSE DDiv(e.gross_salary, standard_hours)
            pay == DTimes(DMul(hourly, OVERTIME_MULTIPLIER), e.overtime_hours)
            overtime_lines == LinesWithCode(line_items, "OVERTIME")
        IN  IF e.overtime_hours > 0
            THEN /\ Len(overtime_lines) = 1
                 /\ overtime_lines[1].category = "EARNING"
                 /\ overtime_lines[1].amount = round_currency(pay)
                 /\ gross_total =
                        DAdd(DAdd(e.gross_salary, pay),
                             SumAllowances(e.allowances, AllowanceLabels))
            ELSE Len(overtime_lines) = 0

\* The capped contributions of a calculator, each with its rate and its
\* monthly cap, and the premium base the calculator caps.
CappedContributionsOf(calc) ==
    CASE calc = "curacao" ->
             {[code |-> "AOV_AWW", rate |-> AOV_AWW_EMPLOYEE_RATE, cap |-> AOV_AWW_MAX_MONTHLY],
              [code |-> "BVZ", rate |-> BVZ_EMPLOYEE_RATE, cap |-> BVZ_MAX_MONTHLY],
              [code |-> "AVBZ", rate |-> AVBZ_EMPLOYEE_RATE, cap |-> AVBZ_MAX_MONTHLY]}
      [] calc = "curacao_old" ->
             {[code |-> "AOV", rate |-> AOV_RATE, cap |-> AOV_MAX_BASE],
              [code |-> "AWW", rate |-> AWW_RATE, cap |-> AWW_MAX_BASE]}
      [] calc = "st_maarten" ->
             {[code |-> "SOCIAL_SEC", rate |-> SOCIAL_SECURITY_RATE,
               cap |-> SOCIAL_SECURITY_MAX]}
      [] OTHER -> {}

PremiumBase ==
    IF calculator = "curacao" THEN calculate_premium_income_monthly(gross_total)
    ELSE gross_total

\* C8: for every capped contribution with rate r and cap C and every
\* premium base >= C, the contribution line has base_amount C and an amount
\* of r * C rounded to the cent, however far the income exceeds the cap.
CappedContributions ==
    pc \in {"other", "net", "done"} =>
        \A c \in CappedContributionsOf(calculator) :
            DLe(c.cap, PremiumBase) =>
                \A i \in DOMAIN line_items :
                    line_items[i].code = c.code =>
                        /\ line_items[i].base_amount = Some(c.cap)
                        /\ line_items[i].rate = Some(c.rate)
                        /\ line_items[i].amount = round_currency(DMul(c.cap, c.rate))

\* C8 as stated: the amount of the line is r * C itself.
CappedContributionsExact ==
    pc \in {"other", "net", "done"} =>
        \A c \in CappedContributionsOf(calculator) :
            DLe(c.cap, PremiumBase) =>
                \A i \in DOMAIN line_items :
                    line_items[i].code = c.code =>
                        /\ line_items[i].base_amount = Some(c.cap)
                        /\ line_items[i].amount = DMul(c.cap, c.rate)

\* A finished Curacao run above the highest cap, with all three capped
\* lines in the ledger.
AboveEveryCapRun ==
    /\ pc = "done"
    /\ calculator = "curacao"
    /\ DLt(AVBZ_MAX_MONTHLY, PremiumBase)
    /\ \A c \in CappedContributionsOf("curacao") :
           Len(LinesWithCode(line_items, c.code)) = 1

\* C9: for every accepted employee input the premium credit (korting) is
\* >= 0 and the tax returned by calculate_tax and recorded on the TAX line
\* is >= 0.
KortingAndTaxNonNegative ==
    pc \in {"social", "other", "net", "done"} =>
        /\ DLe(DZero, tax_amount)
        /\ \A i \in DOMAIN line_items :
               /\ line_items[i].code = "TAX" => DLe(DZero, line_items[i].amount)
               /\ line_items[i].code = "KORTING" => DLe(line_items[i].amount, DZero)
        /\ calculator = "curacao" =>
               DLe(DZero,
                   calculate_aov_aww_korting_monthly(
                       DTimes(calculate_premium_income_monthly(gross_total), 12)))

\* The brackets of a table that a base reaches: those with base > lower.
AppliedBrackets(t, b) == {i \in DOMAIN b : DLt(b[i][1], t)}

\* The sum over the applied brackets of rate * (min(base, upper) - lower).
RECURSIVE BracketSum(_, _, _)
BracketSum(t, b, i) ==
    IF i > Len(b) THEN DZero
    ELSE DAdd(IF DLt(b[i][1], t) THEN DMul(DSub(DMin(t, b[i][2]), b[i][1]), b[i][3])
              ELSE DZero,
              BracketSum(t, b, i + 1))

\* The index of the first bracket whose lower bound is >= the base, one
\* past the table when there is none.
FirstUnreached(t, b) ==
    IF \E i \in DOMAIN b : DLe(t, b[i][1])
    THEN CHOOSE i \in DOMAIN b :
             DLe(t, b[i][1]) /\ \A j \in DOMAIN b : DLe(t, b[j][1]) => i <= j
    ELSE Len(b) + 1

\* C10: for every non-negative base and every ordered, contiguous,
\* ascending table, calculate_progressive_tax returns the currency-rounded
\* sum over the brackets with base > lower of
\* rate * (min(base, upper) - lower), evaluates the brackets before the
\* first one whose lower bound is >= the base and no other, and returns the
\* note "No tax" exactly when no bracket applied.
ProgressiveTaxIsBracketSum ==
    progressive_result # None =>
        LET t == taxable_amount[1]
            r == progressive_result[1]
        IN  /\ r.tax = round_currency(BracketSum(t, brackets, 1))
            /\ Len(r.notes[1].args) = FirstUnreached(t, brackets) - 1
            /\ \A i \in DOMAIN r.notes[1].args :
                   /\ r.notes[1].args[i].rate = brackets[i][3]
                   /\ r.notes[1].args[i].amount =
                          DSub(DMin(t, brackets[i][2]), brackets[i][1])
            /\ (r.notes = Note("No tax", <<>>)) <=> (AppliedBrackets(t, brackets) = {})

\* A call that evaluates two brackets and stops before a third, the sum
\* falling between two cents.
TwoBracketsThenStop ==
    /\ progressive_result # None
    /\ Len(brackets) = 3
    /\ Len(progressive_result[1].notes[1].args) = 2
    /\ BracketSum(taxable_amount[1], brackets, 1).f # 0
    /\ DLt(DZero, progressive_result[1].tax)

\* ------------------------------------------------------------------------
\* calculate_progressive_tax called on the bracket table of a calculator
\* ------------------------------------------------------------------------

\* TAX_BRACKETS of each calculator class.
TaxBracketsOf(calc) ==
    CASE calc = "curacao" -> Curacao_TAX_BRACKETS
      [] calc = "curacao_old" -> CuracaoOld_TAX_BRACKETS
      [] calc = "st_maarten" -> StMaarten_TAX_BRACKETS
      [] calc = "aruba" -> Aruba_TAX_BRACKETS
      [] calc = "bonaire" -> Bonaire_TAX_BRACKETS

\* The finite limits of the five tables.
JurisdictionLimits ==
    UNION {{TaxBracketsOf(c)[i][1].w : i \in DOMAIN TaxBracketsOf(c)} : c \in Calculators}
    \ {0}

\* Bases: zero, one cent, every limit and the cent on either side of it, a
\* base with a fraction of a cent, a base above every limit.
JurisdictionBases ==
    {Cents(0), Cents(1), [w |-> 123456, f |-> FracDen \div 2], Cents(6000000)}
    \cup {Cents(l + d) : l \in JurisdictionLimits, d \in {-1, 0, 1}}

InitJurisdictionTax ==
    /\ pc = "jurisdiction_tax"
    /\ calculator = "curacao"
    /\ employee = None
    /\ line_items = <<>>
    /\ warnings = <<>>
    /\ notes = <<>>
    /\ gross_total = DZero
    /\ tax_amount = DZero
    /\ social_security = <<>>
    /\ other_deductions_total = DZero
    /\ payable = DZero
    /\ tax_file = None
    /\ result = None
    /\ taxable_amount = None
    /\ brackets = <<>>
    /\ progressive_result = None
    /\ lookup_base = None
    /\ lookup_result = None
    /\ returned = <<>>
    /\ calls = <<>>
    /\ table_reads = 0
    /\ request = None
    /\ response = None
    /\ entered = <<>>
    /\ handler = None

\* self.calculate_progressive_tax(base, self.TAX_BRACKETS) on calculator c.
CallJurisdictionTax ==
    /\ pc = "jurisdiction_tax"
    /\ progressive_result = None
    /\ \E c \in Calculators : \E t \in JurisdictionBases :
           /\ calculator' = c
           /\ taxable_amount' = Some(t)
           /\ brackets' = TaxBracketsOf(c)
           /\ progressive_result' = Some(calculate_progressive_tax(t, TaxBracketsOf(c)))
    /\ UNCHANGED <<service_vars, table_reads,
                   returned, pc, employee, line_items, warnings, notes, gross_total, tax_amount,
                   social_security, other_deductions_total, payable, tax_file, result,
                   lookup_vars>>

NextJurisdictionTax == CallJurisdictionTax

SpecJurisdictionTax == InitJurisdictionTax /\ [][NextJurisdictionTax]_vars

\* C11: on each calculator's bracket table the tax is non-decreasing in the
\* base (the tax on any base that is not smaller is not smaller), and the
\* tax on a base of 0 is 0.
JurisdictionTaxMonotone ==
    progressive_result # None =>
        /\ \A t2 \in JurisdictionBases :
               DLe(taxable_amount[1], t2) =>
                   DLe(progressive_result[1].tax,
                       calculate_progressive_tax(t2, brackets).tax)
        /\ taxable_amount[1] = DZero => progressive_result[1].tax = DZero

\* A call on the St. Maarten table with a base in the second bracket, taxed
\* more than the whole first bracket.
SecondBracketOfStMaarten ==
    /\ progressive_result # None
    /\ calculator = "st_maarten"
    /\ taxable_amount[1] = Cents(250001)
    /\ DLe(Cents(25000), progressive_result[1].tax)

\* ------------------------------------------------------------------------
\* lookup_tax_from_table called on its own
\* ------------------------------------------------------------------------

\* A table whose first range starts above zero.
AboveZeroFile ==
    [exists |-> TRUE, header |-> TRUE,
     rows |-> << Row(Cents(100000), Cents(200000), Cents(10000)),
                 Row(Cents(200000), Cents(500000), Cents(60000)) >>]

\* A table with a gap between its two ranges.
GapFile ==
    [exists |-> TRUE, header |-> TRUE,
     rows |-> << Row(Cents(0), Cents(200000), Cents(10000)),
                 Row(Cents(300000), Cents(500000), Cents(60000)) >>]

\* Files whose every row parses, the ranges ascending.
AscendingTableFiles == {TableFile, AboveZeroFile, GapFile}

\* The same files with one field of one row unparsable.
MalformedFiles ==
    UNION {{[file EXCEPT !.rows[i][j] = BadField] :
                i \in DOMAIN file.rows, j \in 1..3} : file \in AscendingTableFiles}

LookupFiles ==
    AscendingTableFiles \cup MalformedFiles \cup {MissingFile, EmptyFile, HeaderOnlyFile}

\* Monthly bases: below, on, inside, between and above the ranges.
LookupBases ==
    {Cents(0), Cents(50000), Cents(100000), Cents(199999), Cents(200000),
     Cents(250000), Cents(300000), Cents(499999), Cents(500000),
     [w |-> 941666, f |-> (2 * FracDen) \div 3], Cents(1199999), Cents(1200000)}

InitLookup ==
    /\ pc = "lookup"
    /\ calculator = "curacao"
    /\ employee = None
    /\ line_items = <<>>
    /\ warnings = <<>>
    /\ notes = <<>>
    /\ gross_total = DZero
    /\ tax_amount = DZero
    /\ social_security = <<>>
    /\ other_deductions_total = DZero
    /\ payable = DZero
    /\ tax_file = None
    /\ result = None
    /\ taxable_amount = None
    /\ brackets = <<>>
    /\ progressive_result = None
    /\ lookup_base = None
    /\ lookup_result = None
    /\ returned = <<>>
    /\ calls = <<>>
    /\ table_reads = 0
    /\ request = None
    /\ response = None
    /\ entered = <<>>
    /\ handler = None

\* One call of lookup_tax_from_table: it reads the file it finds and
\* writes no field.
CallLookup ==
    /\ pc = "lookup"
    /\ lookup_result = None
    /\ \E file \in LookupFiles : \E t \in LookupBases :
           /\ tax_file' = Some(file)
           /\ lookup_base' = Some(t)
           /\ lookup_result' = Some(lookup_tax_from_table(file, t))
    /\ UNCHANGED <<service_vars, table_reads,
                   returned, pc, calculator, employee, line_items, warnings, notes, gross_total,
                   tax_amount, social_security, other_deductions_total, payable,
                   result, bracket_vars>>

NextLookup == CallLookup

SpecLookup == InitLookup /\ [][NextLookup]_vars

\* The rows of a parsed table whose range holds the base.
ContainingRows(rows, t) ==
    {i \in DOMAIN rows : DLe(rows[i][1].value, t) /\ DLt(t, rows[i][2].value)}

\* C12: on a loaded table of ascending rows the lookup returns the gross
\* tax of the row with min <= base < max when there is one, and returns the
\* last row's gross tax only when no row holds the base because the base
\* lies beyond every range.
LookupReturnsContainingRow ==
    (lookup_result # None /\ tax_file[1] \in AscendingTableFiles) =>
        LET rows == tax_file[1].rows
            t == lookup_base[1]
            holding == ContainingRows(rows, t)
        IN  IF holding # {}
            THEN \E i \in holding : lookup_result[1] = Some(rows[i][3].value)
            ELSE lookup_result[1] = Some(rows[Len(rows)][3].value) =>
                     \A i \in DOMAIN rows : DLe(rows[i][2].value, t)

\* C13: when the file is missing or holds a malformed row anywhere, the
\* lookup returns None whatever the base and wherever the row sits.
MalformedTableNeverAvailable ==
    (lookup_result # None /\ tax_file[1] \in MalformedFiles \cup {MissingFile}) =>
        lookup_result[1] = None

\* ------------------------------------------------------------------------
\* Properties of the Curacao calculation
\* ------------------------------------------------------------------------

\* The files of TaxFiles on which no lookup succeeds: missing, empty,
\* header only, unparsable first row.
UnavailableFiles == {MissingFile, EmptyFile, HeaderOnlyFile, BadFirstRowFile}

\* The gross tax a parsed table gives a base: that of the row holding it,
\* that of the last row beyond the ranges.
TableGrossTax(rows, t) ==
    IF ContainingRows(rows, t) # {}
    THEN rows[CHOOSE i \in ContainingRows(rows, t) : TRUE][3].value
    ELSE rows[Len(rows)][3].value

ContributionValue(code) ==
    LET entries == SelectSeq(social_security, LAMBDA c : c.code = code)
    IN  entries[1].amount

\* C15: on the standard Curacao tax path, for every employee whether or not
\* exempt from AOV/AWW, the tax base recorded as base_amount of the TAX line
\* is the premium income minus the AOV_AWW value of the run's contribution
\* mapping.
TaxBaseIsPremiumLessContribution ==
    (pc = "done" /\ calculator = "curacao" /\ ~employee[1].tax_exempt
     /\ employee[1].tax_percentage = None) =>
        LinesWithCode(line_items, "TAX")[1].base_amount =
            Some(DSub(calculate_premium_income_monthly(gross_total),
                      ContributionValue("AOV_AWW")))

\* The monthly AOV/AWW credit as the rules state it for an annualized premium
\* income.
MonthlyCredit(annual_premium_income) ==
    IF DLe(KORTING_MAX_INCOME, annual_premium_income) THEN DZero
    ELSE DDiv(DMul(DMax(DSub(KORTING_BASE,
                             DMul(annual_premium_income, KORTING_PERCENTAGE)),
                        DZero),
                   KORTING_RATE),
              12)

\* The positions of the ledger that hold a line of the code.
PositionsOf(items, code) == {i \in DOMAIN items : items[i].code = code}

\* C16: for a Curacao employee not exempt from AOV/AWW the monthly credit is 0
\* from the cutoff income on and max(base - percentage x annual income, 0) x
\* rate / 12 below it; the AOV_AWW contribution is max(raw premium - credit, 0)
\* with raw premium = min(premium income, monthly cap) x employee rate; the
\* ledger holds one AOV_AWW line with the raw premium and, immediately after
\* it, one KORTING line with minus the credit.  The amount of a line is
\* rounded to the cent when it is recorded.
KortingAfterRawPremium ==
    (pc \in {"other", "net", "done"} /\ calculator = "curacao"
     /\ ~employee[1].aov_exempt) =>
        LET premium_income == calculate_premium_income_monthly(gross_total)
            credit == MonthlyCredit(DTimes(premium_income, 12))
            raw_premium == DMul(DMin(premium_income, AOV_AWW_MAX_MONTHLY),
                                AOV_AWW_EMPLOYEE_RATE)
            at == PositionsOf(line_items, "AOV_AWW")
        IN  /\ ContributionValue("AOV_AWW") = DMax(DSub(raw_premium, credit), DZero)
            /\ Cardinality(at) = 1
            /\ Cardinality(PositionsOf(line_items, "KORTING")) = 1
            /\ \A i \in at :
                   /\ line_items[i].amount = round_currency(raw_premium)
                   /\ i + 1 \in DOMAIN line_items
                   /\ line_items[i + 1].code = "KORTING"
                   /\ line_items[i + 1].category = "DEDUCTION"
                   /\ line_items[i + 1].amount = round_currency(DNeg(credit))

\* A finished Curacao run below the cutoff income with a positive credit
\* smaller than the raw premium.
PositiveCreditRun ==
    /\ pc = "done"
    /\ calculator = "curacao"
    /\ ~employee[1].aov_exempt
    /\ DLt(DZero, ContributionValue("AOV_AWW"))
    /\ DLt(LinesWithCode(line_items, "KORTING")[1].amount, DZero)

\* ------------------------------------------------------------------------
\* Direct calls of CuracaoCalculator.calculate_social_security
\* ------------------------------------------------------------------------

\* The monthly gross, in cents, at which the annualized premium income
\* 12 * (gross - VASTE_AFTREK / 12) first exceeds a limit of the BVZ bands
\* (12000, 13200, 14400, 15600, 16800, 18000) or the BVZ cap (150000).
BandGrossCents == {104167, 114167, 124167, 134167, 144167, 154167, 1254167}

\* The gross totals of the direct calls: around every limit, the gross
\* that puts the annualized premium income on the limit itself (two thirds
\* of a cent below the first gross above it), inside every band, and
\* below the fixed deduction.
SocialGrosses ==
    {Cents(b + d) : b \in BandGrossCents, d \in {-2, -1, 0, 1, 2500, 5000, 7500, 9999}}
    \cup {[w |-> b - 1, f |-> 2 * (FracDen \div 3)] : b \in BandGrossCents}
    \cup {Cents(0), Cents(2000), Cents(50000), Cents(2000000)}

\* The employees of the direct calls: the stage reads aov_exempt alone.
SocialEmployees ==
    {e \in Employees("curacao") :
        /\ e.gross_salary = Cents(120000)
        /\ e.overtime_hours = 0
        /\ e.allowances = <<>>
        /\ e.deductions = <<>>
        /\ ~e.tax_exempt
        /\ e.tax_percentage = None
        /\ ~e.aww_exempt}

InitSocialSecurity ==
    /\ pc = "social_security"
    /\ calculator = "curacao"
    /\ employee = None
    /\ line_items = <<>>
    /\ warnings = <<>>
    /\ notes = <<>>
    /\ gross_total = DZero
    /\ tax_amount = DZero
    /\ social_security = <<>>
    /\ other_deductions_total = DZero
    /\ payable = DZero
    /\ tax_file = None
    /\ result = None
    /\ taxable_amount = None
    /\ brackets = <<>>
    /\ progressive_result = None
    /\ lookup_base = None
    /\ lookup_result = None
    /\ returned = <<>>
    /\ calls = <<>>
    /\ table_reads = 0
    /\ request = None
    /\ response = None
    /\ entered = <<>>
    /\ handler = None

\* One call of calculate_social_security on an empty ledger: it appends its
\* lines and warnings to the fields and returns the contribution mapping.
CallSocialSecurity ==
    /\ pc = "social_security"
    /\ employee = None
    /\ \E e \in SocialEmployees : \E gross \in SocialGrosses :
           LET r == Curacao_calculate_social_security(e, gross, line_items, warnings)
           IN  /\ employee' = Some(e)
               /\ gross_total' = gross
               /\ line_items' = r.line_items
               /\ warnings' = r.warnings
               /\ social_security' = r.contributions
    /\ UNCHANGED <<service_vars, table_reads,
                   returned, pc, calculator, notes, tax_amount, other_deductions_total, payable,
                   tax_file, result, bracket_vars, lookup_vars>>

NextSocialSecurity == CallSocialSecurity

SpecSocialSecurity == InitSocialSecurity /\ [][NextSocialSecurity]_vars

\* The sub-bands of the gliding scale that hold an annualized income.
SubBandsHolding(annual_income) ==
    {i \in DOMAIN BVZ_GLIDING_SCALE :
        /\ DLe(BVZ_GLIDING_SCALE[i][1], annual_income)
        /\ DLt(annual_income, BVZ_GLIDING_SCALE[i][2])}

\* A rate n/d is smaller than a rate m/e.
RateLt(r, q) == r[1] * q[2] < q[1] * r[2]

\* C17: the BVZ contribution applies exactly one of three bands to the
\* annualized premium income.  Below the low threshold the premium is 0 and
\* the line carries the exemption reason.  Inside the middle band exactly
\* one of the five sub-bands holds the income and the premium is the capped
\* base at the standard rate less that sub-band's discount percentage of it;
\* the discount is strictly smaller in every higher sub-band.  From the end
\* of the band on the premium is min(premium income, monthly cap) x standard
\* rate with no discount.  The amount of the line is rounded to the cent
\* when it is recorded.
BvzBands ==
    (pc = "social_security" /\ employee # None) =>
        LET premium_income == calculate_premium_income_monthly(gross_total)
            annual == DTimes(premium_income, 12)
            standard == DMul(DMin(premium_income, BVZ_MAX_MONTHLY), BVZ_EMPLOYEE_RATE)
            holding == SubBandsHolding(annual)
            bvz_lines == LinesWithCode(line_items, "BVZ")
            below == DLt(annual, BVZ_VRIJSTELLING_ANNUAL)
            inside == DLe(BVZ_GLIDING_START, annual) /\ DLt(annual, BVZ_GLIDING_END)
            above == DLe(BVZ_GLIDING_END, annual)
        IN  /\ Len(bvz_lines) = 1
            /\ Cardinality({b \in {"below", "inside", "above"} :
                                \/ b = "below" /\ below
                                \/ b = "inside" /\ inside
                                \/ b = "above" /\ above}) = 1
            /\ below =>
                   /\ ContributionValue("BVZ") = DZero
                   /\ bvz_lines[1].amount = DZero
                   /\ bvz_lines[1].notes[1].text
                          = "Exempt: income below NAf {BVZ_VRIJSTELLING_ANNUAL:.2f}/year"
            /\ inside =>
                   /\ Cardinality(holding) = 1
                   /\ \A i \in holding :
                          LET premium ==
                                  DSub(standard, DMul(standard, BVZ_GLIDING_SCALE[i][3]))
                          IN  /\ ContributionValue("BVZ") = premium
                              /\ bvz_lines[1].amount = round_currency(premium)
                              /\ bvz_lines[1].notes[1].args
                                     = <<BVZ_GLIDING_SCALE[i][3]>>
            /\ above =>
                   /\ holding = {}
                   /\ ContributionValue("BVZ") = standard
                   /\ bvz_lines[1].amount = round_currency(standard)
                   /\ bvz_lines[1].notes[1].text = "Health Insurance"
            /\ \A i, j \in DOMAIN BVZ_GLIDING_SCALE :
                   i < j => RateLt(BVZ_GLIDING_SCALE[j][3], BVZ_GLIDING_SCALE[i][3])

\* A call whose annualized premium income is the lower limit of the second
\* sub-band itself, charged with that sub-band's discount.
SecondSubBandAtItsLimit ==
    /\ pc = "social_security"
    /\ employee # None
    /\ DTimes(calculate_premium_income_monthly(gross_total), 12) = BVZ_GLIDING_SCALE[2][1]
    /\ LinesWithCode(line_items, "BVZ")[1].notes[1].args = <<BVZ_GLIDING_SCALE[2][3]>>

\* ------------------------------------------------------------------------
\* Properties of the contribution mapping and the groupings of the result
\* ------------------------------------------------------------------------

\* C18: in every Curacao calculation, by either Curacao calculator of the
\* repository, the contribution mapping holds CESANTIA with value 0 and the
\* ledger never holds a line of code CESANTIA, so the contribution changes
\* neither deductions_total nor net_salary.
CesantiaEmployerFunded ==
    (pc \in {"other", "net", "done"} /\ employee[1].jurisdiction = "curacao") =>
        /\ \E i \in DOMAIN social_security : social_security[i].code = "CESANTIA"
        /\ ContributionValue("CESANTIA") = DZero
        /\ LinesWithCode(line_items, "CESANTIA") = <<>>
        /\ pc = "done" => LinesWithCode(result[1].line_items, "CESANTIA") = <<>>

\* The number of lines the social-contribution stage of the run recorded.
SocialStageLines ==
    Len(calculate_social_security(calculator, employee[1], gross_total, <<>>, <<>>).line_items)

\* The grouping the rules give the line at position i of the finished
\* ledger: the last lines are those of the other-deductions stage, before
\* them stand those of the social-contribution stage, before them the TAX
\* line, before it the earnings.
GroupingOf(i) ==
    LET n == Len(line_items)
        n_other == Len(employee[1].deductions)
    IN  IF i > n - n_other THEN "other_deductions"
        ELSE IF i > n - n_other - SocialStageLines THEN "statutory_deductions"
        ELSE IF line_items[i].code = "TAX" THEN "statutory_deductions"
        ELSE "earnings"

\* The entries of a grouping under a code.
EntriesOf(grouping, code) == SelectSeq(grouping, LAMBDA entry : entry.code = code)

\* C19: in every result each ledger entry appears in exactly one of the
\* three groupings, under its code with its recorded amount: EARNING lines
\* in earnings, the TAX line and the lines of the social-contribution stage
\* in statutory_deductions, the lines of the other-deductions stage in
\* other_deductions.
EveryLineInItsGrouping ==
    pc = "done" =>
        LET r == result[1]
            groupings == [earnings |-> r.earnings,
                          statutory_deductions |-> r.statutory_deductions,
                          other_deductions |-> r.other_deductions]
        IN  \A i \in DOMAIN r.line_items :
                LET item == r.line_items[i]
                IN  /\ (item.category = "EARNING") = (GroupingOf(i) = "earnings")
                    /\ \A g \in DOMAIN groupings :
                           EntriesOf(groupings[g], item.code) =
                               IF g = GroupingOf(i)
                               THEN << [code |-> item.code, amount |-> item.amount] >>
                               ELSE <<>>

\* ------------------------------------------------------------------------
\* Repeated calls of calculate on one calculator instance
\* ------------------------------------------------------------------------

\* The number of calls made on the instance.
MaxCalls == 3

\* The employees of the repeated calls: one with a bare salary, one with
\* overtime, an allowance, a deduction and an exemption that leaves a
\* warning.
RepeatEmployees(calc) ==
    {e \in Employees(calc) :
        /\ ~e.tax_exempt
        /\ e.tax_percentage = None
        /\ ~e.aww_exempt
        /\ \/ /\ e.gross_salary = Cents(120000)
              /\ e.overtime_hours = 0
              /\ e.allowances = <<>>
              /\ e.deductions = <<>>
              /\ ~e.aov_exempt
           \/ /\ e.gross_salary = Cents(432100)
              /\ e.overtime_hours = 16
              /\ e.hourly_rate = None
              /\ Len(e.allowances) = 1
              /\ e.allowances[1].label = "phone"
              /\ Len(e.deductions) = 1
              /\ e.aov_exempt}

\* A calculator instance after construction, whichever calculator it is.
InitRepeat ==
    /\ pc = "idle"
    /\ calculator \in Calculators
    /\ employee = None
    /\ line_items = <<>>
    /\ warnings = <<>>
    /\ notes = <<>>
    /\ gross_total = DZero
    /\ tax_amount = DZero
    /\ social_security = <<>>
    /\ other_deductions_total = DZero
    /\ payable = DZero
    /\ tax_file = None
    /\ result = None
    /\ taxable_amount = None
    /\ brackets = <<>>
    /\ progressive_result = None
    /\ lookup_base = None
    /\ lookup_result = None
    /\ returned = <<>>
    /\ calls = <<>>
    /\ table_reads = 0
    /\ request = None
    /\ response = None
    /\ entered = <<>>
    /\ handler = None

\* calculate is entered on the instance, for the first time or after an
\* earlier call has returned (lines 48-50): the fields are bound to fresh
\* lists, the locals of the call start anew.
CalculateAgain ==
    /\ pc \in {"idle", "done"}
    /\ Len(returned) < MaxCalls
    /\ \E e \in RepeatEmployees(calculator) : employee' = Some(e)
    /\ line_items' = <<>>
    /\ warnings' = <<>>
    /\ notes' = <<>>
    /\ gross_total' = DZero
    /\ tax_amount' = DZero
    /\ social_security' = <<>>
    /\ other_deductions_total' = DZero
    /\ payable' = DZero
    /\ tax_file' = None
    /\ result' = None
    /\ returned' = rebind_fields(returned)
    /\ pc' = "gross"
    /\ UNCHANGED <<calculator, bracket_vars, lookup_vars, service_vars, table_reads>>

NextRepeat ==
    \/ CalculateAgain
    \/ CalculateGross
    \/ CalculateTax
    \/ CalculateSocialSecurity
    \/ CalculateOtherDeductions
    \/ BuildResult

SpecRepeat == InitRepeat /\ [][NextRepeat]_vars

\* The result as its caller sees it now: the three lists of a result that
\* still shares them with the instance are the fields of the instance.
HeldResult(entry) ==
    IF entry.shared
    THEN [entry.result EXCEPT !.line_items = line_items,
                              !.calculation_notes = notes,
                              !.warnings = warnings]
    ELSE entry.result

\* C20: calculate is deterministic and free of cross-run state.  For any
\* sequence of calls on one instance, two calls with the same employee input
\* that find the same tax table return identical results (totals, line
\* items, groupings, notes, warnings), whatever calls ran between them, and a
\* result already returned is, in the hands of its caller, what it was when
\* it was returned.
EarlierResultsUntouched ==
    /\ \A i \in DOMAIN returned : HeldResult(returned[i]) = returned[i].result
    /\ \A i, j \in DOMAIN returned :
           (returned[i].employee = returned[j].employee
            /\ returned[i].tax_file = returned[j].tax_file) =>
               returned[i].result = returned[j].result

\* Every call of the sequence has returned: the first and the last had the
\* same input and table, the second another input that left a warning and
\* another ledger.
SameInputAroundAnotherCall ==
    /\ Len(returned) = MaxCalls
    /\ returned[1].employee = returned[MaxCalls].employee
    /\ returned[1].tax_file = returned[MaxCalls].tax_file
    /\ returned[2].employee # returned[1].employee
    /\ returned[2].result.warnings # <<>>
    /\ returned[1].result.line_items # returned[2].result.line_items

\* ------------------------------------------------------------------------
\* Two calls of calculate that overlap on the instance of the registry
\* ------------------------------------------------------------------------

\* calculate run from entry to return with no other call on the instance
\* (lines 48-100): the result it returns.
calculate(calc, e, file) ==
    LET g == calculate_gross(calc, e, <<>>)
        t == calculate_tax(calc, e, g.gross, g.line_items, <<>>, file)
        s == calculate_social_security(calc, e, g.gross, t.line_items, t.warnings)
        o == calculate_other_deductions(e, s.line_items)
        deductions_total == DAdd(DAdd(t.tax, sum_values(s.contributions, 1)), o.total)
        paid == paid_allowances_loop(e.allowances, 1, e.gross_salary)
    IN  PayrollCalculationResult(e, g.gross, deductions_total,
                                 DSub(paid, deductions_total), o.line_items, <<>>,
                                 s.warnings)

\* The callers whose calls overlap.
Callers == {1, 2}

\* The locals of a call that has not entered calculate yet.
NewCall ==
    [pc |-> "idle", employee |-> None, gross_total |-> DZero, tax_amount |-> DZero,
     social_security |-> <<>>, other_deductions_total |-> DZero, tax_file |-> None,
     result |-> None]

\* The variables of the one-call specification, which the overlapping calls
\* leave alone: their locals are in `calls`.
one_call_vars ==
    <<pc, employee, gross_total, tax_amount, social_security, other_deductions_total,
      payable, tax_file, result, returned, request, response, entered, handler,
      bracket_vars, lookup_vars>>

\* The module-level instance of a registry entry (main.py lines 42-47): one
\* object, with one line_items, warnings and notes, for every caller.
InitOverlap ==
    /\ pc = "overlap"
    /\ calculator \in Registry
    /\ employee = None
    /\ line_items = <<>>
    /\ warnings = <<>>
    /\ notes = <<>>
    /\ gross_total = DZero
    /\ tax_amount = DZero
    /\ social_security = <<>>
    /\ other_deductions_total = DZero
    /\ payable = DZero
    /\ tax_file = None
    /\ result = None
    /\ taxable_amount = None
    /\ brackets = <<>>
    /\ progressive_result = None
    /\ lookup_base = None
    /\ lookup_result = None
    /\ returned = <<>>
    /\ calls = [t \in Callers |-> NewCall]
    /\ table_reads = 0
    /\ request = None
    /\ response = None
    /\ entered = <<>>
    /\ handler = None

\* A caller enters calculate (lines 48-50): the fields of the instance are
\* bound to fresh lists, whatever another call has recorded in them.
OverlapEnter ==
    /\ \E t \in Callers :
           /\ calls[t].pc = "idle"
           /\ \E e \in RepeatEmployees(calculator) :
                  calls' = [calls EXCEPT ![t].pc = "gross", ![t].employee = Some(e)]
    /\ line_items' = <<>>
    /\ warnings' = <<>>
    /\ notes' = <<>>
    /\ UNCHANGED <<calculator, table_reads, one_call_vars>>

\* Step 1 (line 53) of a caller, on the lists the fields are bound to now.
OverlapGross ==
    /\ \E t \in Callers :
           /\ calls[t].pc = "gross"
           /\ LET r == calculate_gross(calculator, calls[t].employee[1], line_items)
              IN  /\ line_items' = r.line_items
                  /\ calls' = [calls EXCEPT ![t].pc = "tax", ![t].gross_total = r.gross]
    /\ UNCHANGED <<calculator, warnings, notes, table_reads, one_call_vars>>

\* Step 2 (line 56) of a caller.
OverlapTax ==
    /\ \E t \in Callers : \E file \in TaxFiles :
           /\ calls[t].pc = "tax"
           /\ LET e == calls[t].employee[1]
                  reads == calculator = "curacao" /\ ~e.tax_exempt
                           /\ e.tax_percentage = None
                  r == calculate_tax(calculator, e, calls[t].gross_total, line_items,
                                     warnings, file)
              IN  /\ line_items' = r.line_items
                  /\ warnings' = r.warnings
                  /\ table_reads' = table_reads + opens(reads, file)
                  /\ calls' = [calls EXCEPT ![t].pc = "social",
                                            ![t].tax_amount = r.tax,
                                            ![t].tax_file =
                                                IF reads THEN Some(file) ELSE None]
    /\ UNCHANGED <<calculator, notes, one_call_vars>>

\* Step 3 (line 59) of a caller.
OverlapSocialSecurity ==
    /\ \E t \in Callers :
           /\ calls[t].pc = "social"
           /\ LET r == calculate_social_security(calculator, calls[t].employee[1],
                                                 calls[t].gross_total, line_items,
                                                 warnings)
              IN  /\ line_items' = r.line_items
                  /\ warnings' = r.warnings
                  /\ calls' = [calls EXCEPT ![t].pc = "other",
                                            ![t].social_security = r.contributions]
    /\ UNCHANGED <<calculator, notes, table_reads, one_call_vars>>

\* Step 4 (line 62) of a caller.
OverlapOtherDeductions ==
    /\ \E t \in Callers :
           /\ calls[t].pc = "other"
           /\ LET r == calculate_other_deductions(calls[t].employee[1], line_items)
              IN  /\ line_items' = r.line_items
                  /\ calls' = [calls EXCEPT ![t].pc = "net",
                                            ![t].other_deductions_total = r.total]
    /\ UNCHANGED <<calculator, warnings, notes, table_reads, one_call_vars>>

\* Step 5 and the result (lines 65-100) of a caller: the totals from its
\* locals, the lists from the fields of the instance.
OverlapBuildResult ==
    /\ \E t \in Callers :
           /\ calls[t].pc = "net"
           /\ LET e == calls[t].employee[1]
                  deductions_total ==
                      DAdd(DAdd(calls[t].tax_amount,
                                sum_values(calls[t].social_security, 1)),
                           calls[t].other_deductions_total)
                  paid == paid_allowances_loop(e.allowances, 1, e.gross_salary)
                  built == PayrollCalculationResult(e, calls[t].gross_total,
                                                    deductions_total,
                                                    DSub(paid, deductions_total),
                                                    line_items, notes, warnings)
              IN  calls' = [calls EXCEPT ![t].pc = "done", ![t].result = Some(built)]
    /\ UNCHANGED <<calculator, line_items, warnings, notes, table_reads, one_call_vars>>

NextOverlap ==
    \/ OverlapEnter
    \/ OverlapGross
    \/ OverlapTax
    \/ OverlapSocialSecurity
    \/ OverlapOtherDeductions
    \/ OverlapBuildResult

SpecOverlap == InitOverlap /\ [][NextOverlap]_vars

\* The table file a call found, the missing file when it read none.
FileOf(call) == IF call.tax_file = None THEN MissingFile ELSE call.tax_file[1]

\* C21: when two calls overlap on the instance the registry hands out, the
\* result of each holds exactly the line items, warnings and totals the call
\* produces when it runs alone.
OverlappingCallsAsAlone ==
    pc = "overlap" =>
        \A t \in Callers :
            calls[t].pc = "done" =>
                calls[t].result =
                    Some(calculate(calculator, calls[t].employee[1], FileOf(calls[t])))

\* ------------------------------------------------------------------------
\* app.models validation and the handlers of app/main.py
\* ------------------------------------------------------------------------

\* Stands for Decimal("1E+27"): an amount the validation accepts and whose
\* cents exceed the 28 digits of the Decimal context, so that the first
\* quantize of calculate (add_line_item of BASIC) raises InvalidOperation.
TooLarge == [w |-> 2147483647, f |-> 0]

\* calculate raises on the employee.
raises(e) == e.gross_salary = TooLarge

\* EmployeeInput.validate_jurisdiction: None for the ValueError, else the
\* lower-cased value.
validate_jurisdiction(v) ==
    IF str_lower(v) \notin {"curacao", "st_maarten", "aruba", "bonaire"} THEN None
    ELSE Some(str_lower(v))

\* EmployeeInput parsed from a request body: None when the body lacks the
\* required fields (a batch body does), when gross_salary is not > 0 or when
\* the jurisdiction validator raises; else the model, jurisdiction
\* lower-cased.  allowances and deductions are Dict[str, Decimal] with no
\* constraint on the values.
EmployeeInput(body) ==
    IF body.kind # "employee" THEN None
    ELSE IF ~DLt(DZero, body.data.gross_salary) THEN None
    ELSE IF validate_jurisdiction(body.data.jurisdiction) = None THEN None
    ELSE Some([body.data EXCEPT
                   !.jurisdiction = validate_jurisdiction(body.data.jurisdiction)[1]])

\* BatchCalculationRequest parsed from a request body: every employee must
\* parse.
BatchCalculationRequest(body) ==
    IF body.kind # "batch" THEN None
    ELSE IF \E i \in DOMAIN body.employees :
                EmployeeInput([kind |-> "employee", data |-> body.employees[i]]) = None
         THEN None
    ELSE Some([employees |->
                   [i \in DOMAIN body.employees |->
                       EmployeeInput([kind |-> "employee",
                                      data |-> body.employees[i]])[1]],
               validate_only |-> body.validate_only])

\* The POST routes under /api/v1/calculate/ in the order main.py registers
\* them (lines 70 and 109): the last path segment each declares.
Routes ==
    << [segment |-> "{jurisdiction}", handler |-> "calculate_payroll"],
       [segment |-> "batch", handler |-> "calculate_payroll_batch"] >>

\* The router hands a request to the first registered route whose path
\* matches; a path parameter matches every segment.
dispatch(segment) ==
    LET matching == {i \in DOMAIN Routes :
                        Routes[i].segment \in {"{jurisdiction}", segment}}
        first == CHOOSE i \in matching : \A j \in matching : i <= j
    IN  Routes[first].handler

\* ------------------------------------------------------------------------
\* Requests to the service
\* ------------------------------------------------------------------------

\* The most employees of a batch.
MaxBatch == 3

\* The employee data of a request body, before validation.
EmployeeData(id, j, g, a, d) ==
    [employee_id |-> id, jurisdiction |-> j, gross_salary |-> g, hourly_rate |-> None,
     overtime_hours |-> 0, allowances |-> a, deductions |-> d, tax_exempt |-> FALSE,
     tax_percentage |-> None, aov_exempt |-> FALSE, aww_exempt |-> FALSE]

\* Bodies of single-employee requests: jurisdictions inside and outside the
\* registry and in capitals, salaries positive, zero, negative and too
\* large to calculate, mapping values negative or absent.
EmployeeBodies ==
    {[kind |-> "employee", data |-> EmployeeData("E1", j, g, a, d)] :
        j \in {"curacao", "CURACAO", "st_maarten", "invalid_place"},
        g \in {Cents(120000), Cents(0), Cents(-100000), TooLarge},
        a \in {<<>>, << [label |-> "phone", amount |-> Cents(-7500)] >>},
        d \in {<<>>, << [label |-> "union_dues", amount |-> Cents(-2500)] >>}}

\* The employees of the batches: all pass the validation, the third makes
\* calculate raise.
BatchEmployees ==
    {EmployeeData("E1", "curacao", Cents(120000), <<>>, <<>>),
     EmployeeData("E2", "st_maarten", Cents(432100),
                  << [label |-> "phone", amount |-> Cents(7500)] >>, <<>>),
     EmployeeData("E3", "curacao", TooLarge, <<>>, <<>>)}

\* Bodies of batch requests: up to MaxBatch employees in any order, with
\* repetitions.
BatchBodies ==
    {[kind |-> "batch", employees |-> es, validate_only |-> v] :
        es \in UNION {[1..n -> BatchEmployees] : n \in 0..MaxBatch}, v \in BOOLEAN}

\* The last path segment of a POST under /api/v1/calculate/.
Segments == {"curacao", "CURACAO", "st_maarten", "invalid_place", "batch"}

\* The locals of calculate_payroll_batch before its loop (lines 118-121);
\* idx is the position of the next employee, counted from 1.
BatchLocals(req) ==
    [name |-> "calculate_payroll_batch", req |-> req, idx |-> 1, results |-> <<>>,
     errors |-> <<>>, success_count |-> 0, error_count |-> 0]

\* The failure handler recording the error without counting it: the fault
\* BatchIsolatesFailures must detect.
batch_except_uncounted(h, e, error) ==
    [h EXCEPT !.errors = Append(@, [employee_id |-> e.employee_id, index |-> h.idx - 1,
                                    error |-> error]),
              !.idx = @ + 1]

\* An employee of the batch fails (lines 128-134 and 146-152): one error entry
\* with its id and its index as enumerate counts it, error_count raised,
\* the loop goes on.
batch_except(h, e, error) ==
    [h EXCEPT !.errors = Append(@, [employee_id |-> e.employee_id, index |-> h.idx - 1,
                                    error |-> error]),
              !.error_count = @ + 1,
              !.idx = @ + 1]

\* The fields and locals of calculate.
calculate_vars ==
    <<calculator, employee, line_items, warnings, notes, gross_total, tax_amount,
      social_security, other_deductions_total, payable, tax_file, result, returned>>

\* What no handler step touches.
handler_frame == <<calls, table_reads, bracket_vars, lookup_vars>>

\* The service after start-up: the instances constructed, no request yet.
InitService ==
    /\ pc = "service"
    /\ calculator = "curacao"
    /\ employee = None
    /\ line_items = <<>>
    /\ warnings = <<>>
    /\ notes = <<>>
    /\ gross_total = DZero
    /\ tax_amount = DZero
    /\ social_security = <<>>
    /\ other_deductions_total = DZero
    /\ payable = DZero
    /\ tax_file = None
    /\ result = None
    /\ taxable_amount = None
    /\ brackets = <<>>
    /\ progressive_result = None
    /\ lookup_base = None
    /\ lookup_result = None
    /\ returned = <<>>
    /\ calls = <<>>
    /\ table_reads = 0
    /\ request = None
    /\ response = None
    /\ entered = <<>>
    /\ handler = None

\* A handler calls calculate on the instance of the registry (lines 98-99,
\* 141-142): calculate resets the fields (lines 48-50) and either goes on
\* to step 1 or raises at its first line item, next_pc telling which.
EnterCalculate(calc, e, next_pc) ==
    /\ calculator' = calc
    /\ employee' = Some(e)
    /\ line_items' = <<>>
    /\ warnings' = <<>>
    /\ notes' = <<>>
    /\ gross_total' = DZero
    /\ tax_amount' = DZero
    /\ social_security' = <<>>
    /\ other_deductions_total' = DZero
    /\ payable' = DZero
    /\ tax_file' = None
    /\ result' = None
    /\ returned' = rebind_fields(returned)
    /\ entered' = Append(entered, e)
    /\ pc' = next_pc

\* The request is answered without a call of calculate.
Answer(status_code, detail) ==
    /\ response' = Some([status |-> status_code, body |-> detail])
    /\ pc' = "answered"
    /\ UNCHANGED <<calculate_vars, entered>>

\* A POST under /api/v1/calculate/ arrives: the router picks the handler,
\* the framework parses the body into the model the handler declares
\* (422 when it does not parse), calculate_payroll runs lines 82-99 up to
\* its call of calculate.
PostCalculate ==
    /\ pc = "service"
    /\ request = None
    /\ \E segment \in Segments : \E body \in EmployeeBodies \cup BatchBodies :
           LET parsed == EmployeeInput(body)
               jurisdiction == str_lower(segment)
           IN  /\ request' = Some([via |-> "POST", segment |-> segment, body |-> body])
               /\ IF dispatch(segment) = "calculate_payroll"
                  THEN /\ handler' = Some([name |-> "calculate_payroll"])
                       /\ IF parsed = None
                          THEN Answer(422, "validation error")
                          ELSE IF jurisdiction \notin Registry
                          THEN Answer(400, "Invalid jurisdiction")
                          ELSE IF parsed[1].jurisdiction # jurisdiction
                          THEN Answer(400, "Jurisdiction mismatch")
                          ELSE IF raises(parsed[1])
                          THEN /\ EnterCalculate(jurisdiction, parsed[1], "answered")
                               /\ response' = Some([status |-> 500,
                                                     body |-> "Calculation error"])
                          ELSE /\ EnterCalculate(jurisdiction, parsed[1], "gross")
                               /\ response' = None
                  ELSE IF BatchCalculationRequest(body) = None
                  THEN /\ handler' = Some([name |-> "calculate_payroll_batch"])
                       /\ Answer(422, "validation error")
                  ELSE /\ handler' = Some(BatchLocals(BatchCalculationRequest(body)[1]))
                       /\ response' = None
                       /\ pc' = "batch"
                       /\ UNCHANGED <<calculate_vars, entered>>
    /\ UNCHANGED handler_frame

\* calculate_payroll_batch is called on a parsed request (lines 118-121).
CallBatch ==
    /\ pc = "service"
    /\ request = None
    /\ \E body \in BatchBodies :
           /\ request' = Some([via |-> "call", segment |-> "batch", body |-> body])
           /\ handler' = Some(BatchLocals(BatchCalculationRequest(body)[1]))
    /\ pc' = "batch"
    /\ UNCHANGED <<response, calculate_vars, entered, handler_frame>>

\* One pass of the loop of calculate_payroll_batch (lines 123-152) up to its
\* call of calculate.
BatchStep ==
    /\ pc = "batch"
    /\ handler[1].idx <= Len(handler[1].req.employees)
    /\ LET h == handler[1]
           e == h.req.employees[h.idx]
           jurisdiction == str_lower(e.jurisdiction)
       IN  IF jurisdiction \notin Registry
           THEN /\ handler' = Some(batch_except(h, e, "Invalid jurisdiction"))
                /\ UNCHANGED <<pc, calculate_vars, entered>>
           ELSE IF h.req.validate_only
           THEN /\ handler' = Some([h EXCEPT !.success_count = @ + 1, !.idx = @ + 1])
                /\ UNCHANGED <<pc, calculate_vars, entered>>
           ELSE IF raises(e)
           THEN /\ EnterCalculate(jurisdiction, e, "batch")
                /\ handler' = Some(batch_except(h, e, "InvalidOperation"))
           ELSE /\ EnterCalculate(jurisdiction, e, "gross")
                /\ UNCHANGED handler
    /\ UNCHANGED <<request, response, handler_frame>>

\* calculate returns to the handler that called it: calculate_payroll
\* answers with the result (line 100), calculate_payroll_batch appends it
\* and counts the success (lines 143-144).
ReturnToHandler ==
    /\ pc = "done"
    /\ handler # None
    /\ IF handler[1].name = "calculate_payroll"
       THEN /\ response' = Some([status |-> 200, body |-> result[1]])
            /\ pc' = "answered"
            /\ UNCHANGED handler
       ELSE /\ handler' = Some([handler[1] EXCEPT !.results = Append(@, result[1]),
                                                  !.success_count = @ + 1,
                                                  !.idx = @ + 1])
            /\ pc' = "batch"
            /\ UNCHANGED response
    /\ UNCHANGED <<request, calculate_vars, entered, handler_frame>>

\* The loop of calculate_payroll_batch is over: the response (lines 154-159).
BatchRespond ==
    /\ pc = "batch"
    /\ handler[1].idx > Len(handler[1].req.employees)
    /\ response' = Some([status |-> 200,
                          body |-> [success_count |-> handler[1].success_count,
                                    error_count |-> handler[1].error_count,
                                    results |-> handler[1].results,
                                    errors |-> handler[1].errors]])
    /\ pc' = "answered"
    /\ UNCHANGED <<request, handler, calculate_vars, entered, handler_frame>>

NextService ==
    \/ PostCalculate
    \/ CallBatch
    \/ BatchStep
    \/ CalculateGross
    \/ CalculateTax
    \/ CalculateSocialSecurity
    \/ CalculateOtherDeductions
    \/ BuildResult
    \/ ReturnToHandler
    \/ BatchRespond

SpecService == InitService /\ [][NextService]_vars

\* ------------------------------------------------------------------------
\* Properties of the handlers
\* ------------------------------------------------------------------------

\* The positions of a batch whose calculation fails.
FailedPositions(req) ==
    {i \in DOMAIN req.employees : ~req.validate_only /\ raises(req.employees[i])}

\* The positions of a batch that succeed, in input order.
SucceededPositions(req) ==
    SelectSeq([i \in DOMAIN req.employees |-> i],
              LAMBDA i : i \notin FailedPositions(req))

\* C22: in a batch a failure while calculating one employee neither aborts
\* nor alters the calculation of the others.  After the batch success_count +
\* error_count is the number of employees submitted, every failed employee
\* has exactly one error entry with its employee_id and index, and, when
\* validate_only is false, results holds exactly one result per successful
\* employee, in input order, each the result of that employee calculated
\* alone.
BatchIsolatesFailures ==
    (pc = "answered" /\ handler[1].name = "calculate_payroll_batch"
     /\ response[1].status = 200) =>
        LET req == handler[1].req
            answer == response[1].body
            failed == FailedPositions(req)
            succeeded == SucceededPositions(req)
        IN  /\ answer.success_count + answer.error_count = Len(req.employees)
            /\ answer.error_count = Cardinality(failed)
            /\ Len(answer.errors) = Cardinality(failed)
            /\ \A i \in failed :
                   Cardinality({k \in DOMAIN answer.errors :
                                   /\ answer.errors[k].index = i - 1
                                   /\ answer.errors[k].employee_id
                                          = req.employees[i].employee_id}) = 1
            /\ ~req.validate_only =>
                   /\ Len(answer.results) = Len(succeeded)
                   /\ Len(returned) = Len(succeeded)
                   /\ \A k \in DOMAIN succeeded :
                          LET e == req.employees[succeeded[k]]
                          IN  /\ returned[k].employee = e
                              /\ answer.results[k] =
                                     calculate(e.jurisdiction, e, FileOf(returned[k]))

\* An answered batch of three whose second employee failed between two
\* that succeeded.
FailureBetweenSuccesses ==
    /\ pc = "answered"
    /\ handler[1].name = "calculate_payroll_batch"
    /\ Len(handler[1].req.employees) = 3
    /\ FailedPositions(handler[1].req) = {2}
    /\ Len(response[1].body.results) = 2
    /\ response[1].body.errors = << [employee_id |-> "E3", index |-> 1,
                                     error |-> "InvalidOperation"] >>

\* The request at hand is a single calculation: a POST with employee data
\* that the router hands to calculate_payroll.
SingleCalculation ==
    /\ request # None
    /\ request[1].via = "POST"
    /\ request[1].body.kind = "employee"
    /\ handler # None
    /\ handler[1].name = "calculate_payroll"

\* The single calculation at hand has been answered.
SingleAnswered == SingleCalculation /\ pc = "answered"

\* C23: a single-calculation request whose jurisdiction code is outside the
\* registry, in the URL or in the employee data (the data otherwise
\* acceptable: base salary > 0), is answered 400 and calculate is not
\* entered.
UnknownJurisdictionIs400 ==
    (/\ SingleAnswered
     /\ DLt(DZero, request[1].body.data.gross_salary)
     /\ \/ str_lower(request[1].segment) \notin Registry
        \/ str_lower(request[1].body.data.jurisdiction) \notin Registry) =>
        /\ response[1].status = 400
        /\ entered = <<>>

\* The part of C23 that the code keeps: an unknown code in the URL with
\* employee data that names a jurisdiction of the registry is answered 400
\* without a call of calculate.
UnknownUrlJurisdictionIs400 ==
    (/\ SingleAnswered
     /\ DLt(DZero, request[1].body.data.gross_salary)
     /\ str_lower(request[1].segment) \notin Registry
     /\ str_lower(request[1].body.data.jurisdiction) \in Registry) =>
        /\ response[1].status = 400
        /\ entered = <<>>

\* The request of tests/test_api.py lines 214-226: invalid_place in the URL
\* and in the employee data, answered 422 by the validation.
InvalidPlaceAnswered422 ==
    /\ SingleAnswered
    /\ request[1].segment = "invalid_place"
    /\ request[1].body.data.jurisdiction = "invalid_place"
    /\ DLt(DZero, request[1].body.data.gross_salary)
    /\ response[1].status = 422
    /\ entered = <<>>

\* The employee invariant of the specification: base salary > 0, every
\* amount of the allowance and deduction mappings non-negative.
EmployeeInvariant(e) ==
    /\ DLt(DZero, e.gross_salary)
    /\ \A i \in DOMAIN e.allowances : DLe(DZero, e.allowances[i].amount)
    /\ \A i \in DOMAIN e.deductions : DLe(DZero, e.deductions[i].amount)

\* C24: calculate is never entered with an input that violates the employee
\* invariant: every employee a handler has passed to calculate has a base
\* salary > 0 and no negative allowance or deduction.
CalculateEnteredOnlyWithValidInput ==
    \A i \in DOMAIN entered : EmployeeInvariant(entered[i])

\* The part of C24 that the validation keeps: calculate is never entered
\* with a base salary that is not > 0.
CalculateEnteredOnlyWithPositiveSalary ==
    \A i \in DOMAIN entered : DLt(DZero, entered[i].gross_salary)

\* A single calculation with a negative allowance has run all stages and is
\* answered 200 with the negative amount in its ledger.
NegativeAllowanceCalculated ==
    /\ SingleAnswered
    /\ response[1].status = 200
    /\ Len(entered) = 1
    /\ \E i \in DOMAIN entered[1].allowances :
           DLt(entered[1].allowances[i].amount, DZero)
    /\ \E k \in DOMAIN response[1].body.line_items :
           /\ response[1].body.line_items[k].category = "EARNING"
           /\ DLt(response[1].body.line_items[k].amount, DZero)

\* ------------------------------------------------------------------------
\* The Curacao calculator on a base salary alone
\* ------------------------------------------------------------------------

\* Base salaries from one cent upwards: below, at and just above the
\* monthly fixed deduction (VASTE_AFTREK / 12 = 41.67), where the premium
\* income starts, and through the bands of the contributions.
BaseSalaries ==
    {Cents(1), Cents(4000), Cents(4200), Cents(4266), Cents(4267), Cents(10000),
     Cents(50000), Cents(120000), Cents(194075), Cents(400000), Cents(432100),
     Cents(1000000), Cents(6000000)}

\* EmployeeInput with the defaults of the model for everything but the
\* salary.
BaseOnlyEmployees ==
    {[jurisdiction |-> "curacao", gross_salary |-> g, hourly_rate |-> None,
      overtime_hours |-> 0, allowances |-> <<>>, deductions |-> <<>>,
      tax_exempt |-> FALSE, tax_percentage |-> None, aov_exempt |-> FALSE,
      aww_exempt |-> FALSE] : g \in BaseSalaries}

\* calculate has been entered on the Curacao calculator with a base salary
\* alone and has reset the fields (lines 48-50).
InitBaseOnly ==
    /\ pc = "gross"
    /\ calculator = "curacao"
    /\ employee \in {Some(e) : e \in BaseOnlyEmployees}
    /\ line_items = <<>>
    /\ warnings = <<>>
    /\ notes = <<>>
    /\ gross_total = DZero
    /\ tax_amount = DZero
    /\ social_security = <<>>
    /\ other_deductions_total = DZero
    /\ payable = DZero
    /\ tax_file = None
    /\ result = None
    /\ taxable_amount = None
    /\ brackets = <<>>
    /\ progressive_result = None
    /\ lookup_base = None
    /\ lookup_result = None
    /\ returned = <<>>
    /\ calls = <<>>
    /\ table_reads = 0
    /\ request = None
    /\ response = None
    /\ entered = <<>>
    /\ handler = None

\* The five steps of calculate.
NextBaseOnly ==
    \/ CalculateGross
    \/ CalculateTax
    \/ CalculateSocialSecurity
    \/ CalculateOtherDeductions
    \/ BuildResult

SpecBaseOnly == InitBaseOnly /\ [][NextBaseOnly]_vars

\* One TAX, one AOV_AWW, one BVZ and one AVBZ line, and the gross total is
\* the base salary.
BaseOnlyLedger(r, e) ==
    /\ \A code \in {"TAX", "AOV_AWW", "BVZ", "AVBZ"} : Len(LinesWithCode(r.line_items, code)) = 1
    /\ r.gross_total = e.gross_salary

WithinOneCent(a, b) == DLe(DSub(a, b), Cents(1)) /\ DLe(DSub(b, a), Cents(1))

\* gross_total is the sum of the EARNING line amounts of the result.
GrossTotalIsEarningSum(r) ==
    r.gross_total = SumAmounts(LinesInCategory(r.line_items, "EARNING"))

\* The sum of the DEDUCTION line amounts of the result is within one cent of
\* deductions_total.
DeductionSumNearTotal(r) ==
    WithinOneCent(SumAmounts(LinesInCategory(r.line_items, "DEDUCTION")),
                  r.deductions_total)

\* C26: in every result gross_total equals the sum of the EARNING line
\* amounts, and the sum of the DEDUCTION line amounts differs from
\* deductions_total by at most one cent.
TotalsAreSumsOfRoundedLines ==
    pc = "done" =>
        /\ GrossTotalIsEarningSum(result[1])
        /\ DeductionSumNearTotal(result[1])

\* The deduction half of C26 outside the 2026 Curacao calculator, whose
\* ledger shows the raw AOV/AWW premium and the whole credit.
DeductionSumNearTotalElsewhere ==
    (pc = "done" /\ calculator # "curacao") => DeductionSumNearTotal(result[1])

\* The earning half of C26.
GrossTotalIsEarningSumEverywhere ==
    pc = "done" => GrossTotalIsEarningSum(result[1])

\* ------------------------------------------------------------------------
\* The order of the stages in the ledger
\* ------------------------------------------------------------------------

\* The codes the other-deductions stage records.
DedCodes == {"DED_" \o str_upper(l) : l \in DeductionLabels}

\* The stage a ledger line belongs to: 1 gross (EARNING), 2 tax (TAX),
\* 3 social contributions, 4 other deductions (DED_).
StageOf(item) ==
    IF item.category = "EARNING" THEN 1
    ELSE IF item.code = "TAX" THEN 2
    ELSE IF item.code \in DedCodes THEN 4
    ELSE 3

\* The stage that runs from a position of calculate; 0 where none runs.
StageAt(position) ==
    CASE position = "gross" -> 1
      [] position = "tax" -> 2
      [] position = "social" -> 3
      [] position = "other" -> 4
      [] OTHER -> 0

\* BASIC is first and the lines follow in the order of their stages.
InStageOrder(items) ==
    /\ items # <<>>
    /\ items[1].code = "BASIC"
    /\ \A i, j \in DOMAIN items : i < j => StageOf(items[i]) <= StageOf(items[j])

\* One step of a run: the ledger before the step is kept as it was, what the
\* step adds comes after it and belongs to the stage the step runs, and a
\* step that returns the result returns its lines in stage order.
LedgerStep ==
    /\ Len(line_items) <= Len(line_items')
    /\ SubSeq(line_items', 1, Len(line_items)) = line_items
    /\ \A i \in (Len(line_items) + 1)..Len(line_items') :
           StageOf(line_items'[i]) = StageAt(pc)
    /\ pc' = "done" => /\ result'[1].line_items = line_items
                       /\ InStageOrder(result'[1].line_items)

\* C27: the stages run in the order gross, tax, social contributions, other
\* deductions and the ledger reflects it: every step leaves the recorded
\* lines as they were and appends only lines of the stage it runs, and in
\* every result BASIC is first, the EARNING lines precede the TAX line, the
\* TAX line precedes the social-contribution lines and these precede the
\* DED_ lines.
LedgerInStageOrder == [][LedgerStep]_vars

\* A result with lines of all four stages: two earnings, the tax, social
\* contributions and another deduction.
AllFourStagesRecorded ==
    /\ pc = "done"
    /\ \A n \in 1..4 : \E i \in DOMAIN result[1].line_items :
           StageOf(result[1].line_items[i]) = n
    /\ Len(LinesInCategory(result[1].line_items, "EARNING")) >= 2
    /\ InStageOrder(result[1].line_items)

\* ------------------------------------------------------------------------
\* The tax table over repeated calculations
\* ------------------------------------------------------------------------

\* The call of the entry opened the table file.
Opened(entry) == entry.tax_file # None /\ entry.tax_file[1].exists

\* The call of the entry opened a table file that parses: a header and
\* rows, every field a number.
Loaded(entry) ==
    /\ Opened(entry)
    /\ entry.tax_file[1].header
    /\ entry.tax_file[1].rows # <<>>
    /\ \A i \in DOMAIN entry.tax_file[1].rows :
           \A k \in DOMAIN entry.tax_file[1].rows[i] :
               entry.tax_file[1].rows[i][k].text = "num"

\* C28: over any sequence of calculations on one instance, once a call has
\* loaded the tax table no later call opens the table file again: the
\* lookups of the later calls are served from the parsed table.
TableLoadedOnce ==
    \A i, j \in DOMAIN returned :
        (i < j /\ Loaded(returned[i])) => ~Opened(returned[j])

\* Three calls of the 2026 Curacao calculator with the table in place have
\* returned and the file was opened and parsed three times.
TableReadOnEveryCall ==
    /\ pc = "done"
    /\ calculator = "curacao"
    /\ Len(returned) = 3
    /\ \A i \in DOMAIN returned : Loaded(returned[i])
    /\ table_reads = 3

\* ------------------------------------------------------------------------
\* The route of a batch
\* ------------------------------------------------------------------------

\* The request at hand carries a batch to calculate whose employees all
\* pass the validation and none of whom makes calculate raise, and it has
\* been answered.
ValidBatchAnswered(via) ==
    /\ pc = "answered"
    /\ request[1].via = via
    /\ request[1].segment = "batch"
    /\ request[1].body.kind = "batch"
    /\ ~request[1].body.validate_only
    /\ BatchCalculationRequest(request[1].body) # None
    /\ \A i \in DOMAIN request[1].body.employees : ~raises(request[1].body.employees[i])

\* The answer of the batch operation with every employee calculated.
AllCalculated ==
    /\ handler[1].name = "calculate_payroll_batch"
    /\ response[1].status = 200
    /\ response[1].body.success_count = Len(request[1].body.employees)
    /\ response[1].body.error_count = 0
    /\ Len(response[1].body.results) = Len(request[1].body.employees)

\* C29: a POST to /api/v1/calculate/batch with N valid employees is handled
\* by calculate_payroll_batch and answered 200 with success_count = N,
\* error_count = 0 and N results.
BatchPostReachesBatchHandler == ValidBatchAnswered("POST") => AllCalculated

\* The part of C29 that the code keeps: calculate_payroll_batch called on
\* the parsed request answers with every employee calculated.
BatchCallCalculatesAll == ValidBatchAnswered("call") => AllCalculated

\* The POST of two valid employees to /api/v1/calculate/batch answered 422
\* by calculate_payroll, no calculation made.
BatchPostAnswered422 ==
    /\ ValidBatchAnswered("POST")
    /\ Len(request[1].body.employees) = 2
    /\ handler[1].name = "calculate_payroll"
    /\ response[1].status = 422
    /\ entered = <<>>

\* ------------------------------------------------------------------------
\* The rate and the base on the social-contribution lines
\* ------------------------------------------------------------------------

\* The base a contribution line is to show: the premium base, capped where
\* the contribution has a cap.
AuditBase(code) ==
    IF \E c \in CappedContributionsOf(calculator) : c.code = code
    THEN DMin(PremiumBase,
              (CHOOSE c \in CappedContributionsOf(calculator) : c.code = code).cap)
    ELSE PremiumBase

\* The line can be recomputed from the rate and the base it carries.
Auditable(item) ==
    /\ item.base_amount[1] = AuditBase(item.code)
    /\ item.amount = round_currency(DMul(item.base_amount[1], item.rate[1]))

\* The social-contribution lines of the ledger that carry a rate and a base.
RatedContributionLines ==
    {i \in DOMAIN line_items :
        /\ StageOf(line_items[i]) = 3
        /\ line_items[i].rate # None
        /\ line_items[i].base_amount # None}

\* The premium income of the year is in the band of the BVZ gliding
\* discount.
InGlidingBand ==
    /\ calculator = "curacao"
    /\ DLe(BVZ_GLIDING_START, DTimes(PremiumBase, 12))
    /\ DLt(DTimes(PremiumBase, 12), BVZ_GLIDING_END)

\* C30: every social-contribution line that carries a rate and a
\* base_amount has base_amount = min(premium base, cap of the contribution)
\* and amount = rate * base_amount rounded to the cent, in every income
\* band, the band of the BVZ gliding discount included.
ContributionLinesAuditable ==
    pc \in {"other", "net", "done"} =>
        \A i \in RatedContributionLines : Auditable(line_items[i])

\* The part of C30 that the code keeps: every such line but the BVZ line in
\* the band of the gliding discount.
ContributionLinesAuditableButGliding ==
    pc \in {"other", "net", "done"} =>
        \A i \in RatedContributionLines :
            ~(line_items[i].code = "BVZ" /\ InGlidingBand) => Auditable(line_items[i])

\* A finished Curacao run in the gliding band: the BVZ line shows the rate
\* 4.3% and its base, and an amount below 4.3% of the base.
DiscountedBvzLine ==
    /\ pc = "done"
    /\ InGlidingBand
    /\ \E i \in RatedContributionLines :
           /\ line_items[i].code = "BVZ"
           /\ line_items[i].rate = Some(BVZ_EMPLOYEE_RATE)
           /\ line_items[i].base_amount = Some(AuditBase("BVZ"))
           /\ DLt(line_items[i].amount,
                  round_currency(DMul(line_items[i].base_amount[1], BVZ_EMPLOYEE_RATE)))
====
